---- MODULE Spec2Model ----
(***************************************************************************)
(* Model of the Node-RED MCP server's token authentication manager         *)
(* (lib/auth.mjs, class NodeRedAuth) and of the outbound call wrapper      *)
(* (lib/utils.mjs, callNodeRed), and of the placement of new nodes on a    *)
(* flow (lib/tools/flows.mjs: CoordinateManager, AutoLayoutManager,        *)
(* mergeFlows, validateFlowStructure and the tools update-flow and         *)
(* add-nodes-to-flow).                                                     *)
(*                                                                         *)
(* JavaScript runs the callers on one thread: every step below is the      *)
(* code that runs between two suspension points (await) of one caller.     *)
(***************************************************************************)
EXTENDS Integers, Sequences, FiniteSets, TLC

\* ---------------------------------------------------------------- bounds
\* The token endpoint answers at most this many requests in a run.
MaxTokenReqs == 3

\* At most this many invocations are started in a run.
MaxCalls == 3

\* A flow holds at most this many nodes before a tool adds to it.
MaxFlowNodes == 2

\* applyAutoLayout() is given at most this many new nodes.
MaxBatch == 5

\* mergeFlows() is given at most this many new nodes.
MaxIncoming == 2

\* findAvailablePosition() is called with at most this many occupied
\* positions.
MaxCoords == 3

\* validateFlowStructure() is given at most this many nodes.
MaxNodeSet == 2

\* Concurrent tool invocations.
Callers == {1, 2}

\* The instants (ms after construction) at which something happens: the
\* first two seconds, and the seconds around the buffered end of life
\* (3600 s - 60 s) of a token obtained in them.
Instants == {s * 1000 : s \in {0, 1, 3539, 3540, 3541, 3542}}

\* ------------------------------------------------------- JavaScript values
\* A JavaScript number: NaN or an integer.
Num(n) == [nan |-> FALSE, v |-> n]
NaN == [nan |-> TRUE, v |-> 0]
\* a + b, a * b, a - b and a < b of JavaScript: NaN is contagious and every
\* comparison with NaN is false.
JsAdd(a, b) == IF a.nan \/ b.nan THEN NaN ELSE Num(a.v + b.v)
JsMul(a, b) == IF a.nan \/ b.nan THEN NaN ELSE Num(a.v * b.v)
JsSub(a, b) == IF a.nan \/ b.nan THEN NaN ELSE Num(a.v - b.v)
JsLess(a, b) == ~a.nan /\ ~b.nan /\ a.v < b.v

\* ------------------------------------------------------------ environment
\* The configurations a NodeRedAuth is constructed with: '' is the default
\* of an option that is not given (lib/server.mjs defaultConfig).
Configs ==
  [nodeRedToken : {"", "static"}, nodeRedUsername : {"", "user"},
   nodeRedPassword : {"", "pass"}]

\* The access token the token endpoint issues for its k-th request.
TokenNames == <<"tok1", "tok2", "tok3", "tok4", "tok5", "tok6">>
IssuedToken(k) == TokenNames[k]

\* expires_in of a token response, in seconds: absent (undefined * 1000 is
\* NaN), 0, 30, 3600.
ExpiresInValues == {NaN, Num(0), Num(30), Num(3600)}
\* token_type of a token response: absent ('') or given.
TokenTypes == {"", "MAC"}

\* What the token endpoint can answer to a request with id k.
TokenResponses(k) ==
  [kind : {"ok"}, status : {200}, access_token : {IssuedToken(k), ""},
   expires_in : ExpiresInValues, token_type : TokenTypes]
  \cup
  [kind : {"status"}, status : {401, 404, 500, 503}, access_token : {""},
   expires_in : {NaN}, token_type : {""}]
  \cup
  [kind : {"ECONNREFUSED", "timeout"}, status : {0}, access_token : {""},
   expires_in : {NaN}, token_type : {""}]

AllTokenResponses == UNION {TokenResponses(k) : k \in 1..(MaxTokenReqs + 1)}

\* What the Node-RED API can answer to an upstream request.
ApiResponses ==
  [kind : {"ok"}, status : {200}] \cup [kind : {"status"}, status : {401, 500}]
  \cup [kind : {"network"}, status : {0}]

VARIABLES
  config,       \* NodeRedAuth.config
  authManager,  \* utils.mjs: the global authManager is set
  tokenData,    \* NodeRedAuth.tokenData
  now,          \* Date.now()
  tokenReqs,    \* requests sent to {nodeRedUrl}/auth/token so far
  calls,        \* invocations started so far
  lastAccepted, \* history: the token response accepted last, when, by whom
  call,         \* per caller: the invocation in progress and its locals
  flow,         \* the nodes of the flow as the Node-RED server holds them
  newNodes,     \* the batch of nodes a tool is adding (objects, mutable)
  layout,       \* the applyAutoLayout() invocation in progress and its past
  probe,        \* a findAvailablePosition() call: arguments and result
  merged,       \* a mergeFlows() call: arguments and result
  validation,   \* a validateFlowStructure() call: argument and result
  tool          \* an update-flow or add-nodes-to-flow invocation

authVars ==
  <<config, authManager, tokenData, now, tokenReqs, calls, lastAccepted, call>>
canvasVars == <<flow, newNodes, layout, probe, merged, validation, tool>>
vars ==
  <<config, authManager, tokenData, now, tokenReqs, calls, lastAccepted, call,
    flow, newNodes, layout, probe, merged, validation, tool>>

\* this.tokenData = null
NULL == [null |-> TRUE]

\* ------------------------------------------------------------ NodeRedAuth
buffer == 60 * 1000

\* Mutant: the boundary instant now = expiresAt - buffer counts as valid.
IsTokenValidInclusive(td, t) ==
  IF td = NULL \/ td.token = ""
  THEN FALSE
  ELSE LET limit == JsSub(td.expiresAt, Num(buffer))
       IN JsLess(Num(t), limit) \/ (~limit.nan /\ t = limit.v)

IsTokenValid(td, t) ==
  IF td = NULL \/ td.token = ""
  THEN FALSE
  ELSE JsLess(Num(t), JsSub(td.expiresAt, Num(buffer)))

\* Mutant: expires_in is taken for milliseconds.
NewTokenDataSeconds(resp, t) ==
  [token |-> resp.access_token,
   tokenType |-> IF resp.token_type = "" THEN "Bearer" ELSE resp.token_type,
   expiresAt |-> JsAdd(Num(t), resp.expires_in),
   obtainedAt |-> t,
   expiresIn |-> resp.expires_in]

\* The credential refreshToken() builds from a response accepted at time t.
NewTokenData(resp, t) ==
  [token |-> resp.access_token,
   tokenType |-> IF resp.token_type = "" THEN "Bearer" ELSE resp.token_type,
   expiresAt |-> JsAdd(Num(t), JsMul(resp.expires_in, Num(1000))),
   obtainedAt |-> t,
   expiresIn |-> resp.expires_in]

\* refreshToken() accepts a response: it succeeded and carries an access
\* token.
Accepted(resp) == resp.kind = "ok" /\ resp.access_token # ""

\* Mutant: a refresh that fails drops the cached credential.
AfterRefreshDropsOnFailure(td, resp, t) ==
  IF Accepted(resp) THEN NewTokenData(resp, t) ELSE NULL

\* Mutant: a response is stored only when no credential is cached.
AfterRefreshFirstWins(td, resp, t) ==
  IF Accepted(resp) /\ td = NULL THEN NewTokenData(resp, t) ELSE td

\* this.tokenData once refreshToken() has processed a response at time t,
\* td being the credential cached before.
AfterRefresh(td, resp, t) ==
  IF Accepted(resp) THEN NewTokenData(resp, t) ELSE td

\* `${status}`: the decimal digits of an HTTP status.
Digit == <<"0", "1", "2", "3", "4", "5", "6", "7", "8", "9">>
RECURSIVE DecimalText(_)
DecimalText(n) ==
  IF n < 10 THEN Digit[n + 1]
  ELSE DecimalText(n \div 10) \o Digit[(n % 10) + 1]

\* Mutant: a 404 of the token endpoint is reported like a 401.
RefreshErrorSameFor404(resp) ==
  IF resp.kind = "status"
  THEN IF resp.status \in {401, 404} THEN "Invalid username or password"
       ELSE "Authentication failed with status " \o DecimalText(resp.status)
  ELSE IF resp.kind = "ECONNREFUSED" THEN "Cannot connect to Node-RED"
  ELSE IF resp.kind = "ok" THEN "Token refresh failed: No access token received"
  ELSE "Token refresh failed: timeout"

\* The error refreshToken() throws for a response that is not accepted
\* (the status text that follows the status in the message is left out).
RefreshError(resp) ==
  IF resp.kind = "status"
  THEN IF resp.status = 401 THEN "Invalid username or password"
       ELSE IF resp.status = 404 THEN "Authentication endpoint not found"
       ELSE "Authentication failed with status " \o DecimalText(resp.status)
  ELSE IF resp.kind = "ECONNREFUSED" THEN "Cannot connect to Node-RED"
  ELSE IF resp.kind = "ok" THEN "Token refresh failed: No access token received"
  ELSE "Token refresh failed: timeout"

\* refreshToken() rejects before any request when a credential is missing.
MissingCredentials(cfg) == cfg.nodeRedUsername = "" \/ cfg.nodeRedPassword = ""

\* Mutant: the static token is used only when no password is set either.
UsesStaticTokenWithoutPassword(cfg) ==
  cfg.nodeRedToken # "" /\ cfg.nodeRedUsername = "" /\ cfg.nodeRedPassword = ""

\* getValidToken() returns the static token: one is configured, no username.
UsesStaticToken(cfg) == cfg.nodeRedToken # "" /\ cfg.nodeRedUsername = ""

\* ---------------------------------------------------------------- callers
\* {} : no Authorization header.
NoHeaders == [tokenType |-> "", token |-> ""]
NoResponse ==
  [kind |-> "none", status |-> 0, access_token |-> "", expires_in |-> NaN,
   token_type |-> ""]

NoAccepted == [by |-> 0, at |-> 0, resp |-> NoResponse]

\* A caller that has not called anything. Besides the locals of the code
\* (tok: the token getValidToken() returned, hdr: the headers), a caller
\* records what its call did: log is the sequence of its events, req the id
\* of the token request it sent last, valid the value of isTokenValid() at
\* its last getValidToken(), error the message of the error that ended it.
Idle ==
  [op |-> "none", pc |-> "idle", log |-> <<>>, tok |-> "", hdr |-> NoHeaders,
   req |-> 0, valid |-> FALSE, result |-> "", error |-> ""]

Logged(cr, ev) == [cr EXCEPT !.log = Append(@, ev)]

\* Number of upstream API requests a call has sent.
RECURSIVE Count(_, _)
Count(s, ev) ==
  IF s = <<>> THEN 0
  ELSE (IF Head(s) = ev THEN 1 ELSE 0) + Count(Tail(s), ev)
Sent(cr) == Count(cr.log, "send")

\* The caller after the getValidToken() or refreshToken() it awaits has
\* settled: resolved with a token (ok) or rejected with an error message.
\* getAuthHeaders() resumes after its await in a later step; callNodeRed
\* wraps a rejection (utils.mjs 52-57 for the first attempt, 88-91 for the
\* retry).
Settled(cr, ok, value) ==
  IF ok
  THEN IF cr.op \in {"getValidToken", "refreshToken"}
       THEN [cr EXCEPT !.tok = value, !.pc = "done", !.result = "ok"]
       ELSE [cr EXCEPT !.tok = value, !.pc = "await_gvt"]
  ELSE [cr EXCEPT !.pc = "done", !.error = value,
                  !.result = IF cr.op = "callNodeRed"
                             THEN IF Sent(cr) = 0
                                  THEN "Authentication failed"
                                  ELSE "Node-RED API authentication error"
                             ELSE value]

\* refreshToken() up to its await: rejects without a request when a
\* credential is missing, else posts to the token endpoint.
CallRefreshToken(c, cr) ==
  IF MissingCredentials(config)
  THEN /\ call' = [call EXCEPT ![c] =
                     Settled(cr, FALSE, "Username and password are required")]
       /\ UNCHANGED tokenReqs
  ELSE /\ tokenReqs < MaxTokenReqs
       /\ tokenReqs' = tokenReqs + 1
       /\ call' = [call EXCEPT ![c] =
                     [Logged(cr, "tokreq") EXCEPT !.pc = "await_token",
                                                  !.req = tokenReqs + 1]]

\* Mutant: getValidToken() refreshes without looking at the cache.
CallGetValidTokenNoCache(c, cr, td) ==
  IF UsesStaticToken(config)
  THEN /\ call' = [call EXCEPT ![c] =
                     Settled(Logged(cr, "static"), TRUE, config.nodeRedToken)]
       /\ UNCHANGED tokenReqs
  ELSE CallRefreshToken(c, [cr EXCEPT !.valid = IsTokenValid(td, now)])

\* getValidToken() up to its first await, with td the cached credential at
\* the call.
CallGetValidToken(c, cr, td) ==
  IF UsesStaticToken(config)
  THEN /\ call' = [call EXCEPT ![c] =
                     Settled(Logged(cr, "static"), TRUE, config.nodeRedToken)]
       /\ UNCHANGED tokenReqs
  ELSE IF IsTokenValid(td, now)
  THEN /\ call' = [call EXCEPT ![c] =
                     Settled(Logged([cr EXCEPT !.valid = TRUE], "cached"),
                             TRUE, td.token)]
       /\ UNCHANGED tokenReqs
  ELSE CallRefreshToken(c, [cr EXCEPT !.valid = FALSE])

Free(c) == call[c].pc \in {"idle", "done"}

\* A caller starts an invocation.
Begin(c) == Free(c) /\ calls < MaxCalls /\ calls' = calls + 1

\* ---------------------------------------------------------------- actions
\* Time passes.
Tick(t) ==
  /\ t > now
  /\ now' = t
  /\ UNCHANGED <<config, authManager, tokenData, tokenReqs, calls, lastAccepted, call>>

\* Mutant: clearToken() keeps a credential that has not expired.
ClearTokenIfExpired(c) ==
  /\ Begin(c)
  /\ tokenData' = IF IsTokenValid(tokenData, now) THEN tokenData ELSE NULL
  /\ call' = [call EXCEPT ![c] =
                [Logged(Idle, "clear") EXCEPT !.op = "clearToken", !.pc = "done",
                                              !.result = "ok"]]
  /\ UNCHANGED <<config, authManager, now, tokenReqs, lastAccepted>>

\* A caller calls authManager.clearToken().
ClearToken(c) ==
  /\ Begin(c)
  /\ tokenData' = NULL
  /\ call' = [call EXCEPT ![c] =
                [Logged(Idle, "clear") EXCEPT !.op = "clearToken", !.pc = "done",
                                              !.result = "ok"]]
  /\ UNCHANGED <<config, authManager, now, tokenReqs, lastAccepted>>

\* A caller calls authManager.getValidToken().
StartGetValidToken(c) ==
  /\ Begin(c)
  /\ CallGetValidToken(c, [Idle EXCEPT !.op = "getValidToken"], tokenData)
  /\ UNCHANGED <<config, authManager, tokenData, now, lastAccepted>>

\* A caller calls authManager.getAuthHeaders().
StartGetAuthHeaders(c) ==
  /\ Begin(c)
  /\ CallGetValidToken(c, [Idle EXCEPT !.op = "getAuthHeaders"], tokenData)
  /\ UNCHANGED <<config, authManager, tokenData, now, lastAccepted>>

\* A caller calls authManager.refreshToken() (the refresh-token tool).
StartRefreshToken(c) ==
  /\ Begin(c)
  /\ CallRefreshToken(c, [Idle EXCEPT !.op = "refreshToken"])
  /\ UNCHANGED <<config, authManager, tokenData, now, lastAccepted>>

\* The token endpoint's answer to a caller's request arrives and
\* refreshToken() runs to its end.
TokenResponse(c, resp) ==
  /\ call[c].pc = "await_token"
  /\ resp \in TokenResponses(call[c].req)
  /\ tokenData' = AfterRefresh(tokenData, resp, now)
  /\ LET cr == call[c]
     IN IF Accepted(resp)
        THEN /\ lastAccepted' = [by |-> c, at |-> now, resp |-> resp]
             /\ call' = [call EXCEPT ![c] =
                           Settled(Logged(cr, "tok_ok"), TRUE, resp.access_token)]
        ELSE /\ UNCHANGED lastAccepted
             /\ call' = [call EXCEPT ![c] =
                           Settled(Logged(cr, "tok_fail"), FALSE,
                                   RefreshError(resp))]
  /\ UNCHANGED <<config, authManager, now, tokenReqs, calls>>

\* The headers getAuthHeaders() builds once its await of getValidToken() has
\* resumed with token: the token type is read from the credential cached at
\* that moment.
AuthHeaders(token, td) ==
  IF token = ""
  THEN NoHeaders
  ELSE [tokenType |-> IF td # NULL /\ td.tokenType # ""
                      THEN td.tokenType ELSE "Bearer",
        token |-> token]

\* callNodeRed sends the upstream request with headers h (axios, utils.mjs
\* 64-68 and 82-86).
SendRequest(cr, h) ==
  [Logged(cr, "send") EXCEPT !.pc = "await_api", !.hdr = h]

\* getAuthHeaders() resumes after `await this.getValidToken()`; within
\* callNodeRed the upstream request is then sent.
ResumeGetAuthHeaders(c) ==
  /\ call[c].pc = "await_gvt"
  /\ LET cr == call[c]
         h == AuthHeaders(cr.tok, tokenData)
     IN call' = [call EXCEPT ![c] =
                   IF cr.op = "callNodeRed"
                   THEN SendRequest(cr, h)
                   ELSE [cr EXCEPT !.hdr = h, !.pc = "done", !.result = "ok"]]
  /\ UNCHANGED <<config, authManager, tokenData, now, tokenReqs, calls, lastAccepted>>

\* Mutant: callNodeRed never asks the authentication manager.
UsesAuthManagerNever(cfg) == FALSE

\* callNodeRed uses the authentication manager.
UsesAuthManager(cfg) == cfg.nodeRedUsername # "" /\ cfg.nodeRedPassword # ""

\* A caller calls callNodeRed(method, path, data, config).
StartCallNodeRed(c) ==
  /\ Begin(c)
  /\ LET cr == [Idle EXCEPT !.op = "callNodeRed"]
     IN IF UsesAuthManager(config)
        THEN \* initializeAuth(config) constructs the manager when none is set
             LET td == IF authManager THEN tokenData ELSE NULL
             IN /\ authManager' = TRUE
                /\ tokenData' = td
                /\ CallGetValidToken(c, cr, td)
        ELSE /\ call' = [call EXCEPT ![c] =
                           SendRequest(cr,
                             IF config.nodeRedToken # ""
                             THEN [tokenType |-> "Bearer",
                                   token |-> config.nodeRedToken]
                             ELSE NoHeaders)]
             /\ UNCHANGED <<authManager, tokenData, tokenReqs>>
  /\ UNCHANGED <<config, now, lastAccepted>>

\* Mutant: every HTTP error status triggers the retry.
IsUnauthorizedAnyStatus(resp) == resp.kind = "status"

\* error.response?.status === 401
IsUnauthorized(resp) == resp.kind = "status" /\ resp.status = 401

\* The event a caller logs for an upstream answer.
RespEvent(resp) ==
  IF resp.kind = "ok" THEN "resp_ok"
  ELSE IF resp.kind = "status" /\ resp.status = 401 THEN "resp_401"
  ELSE "resp_err"

\* The upstream answer to a caller's request arrives.
ApiResponse(c, resp) ==
  /\ call[c].pc = "await_api"
  /\ resp \in ApiResponses
  /\ LET cr == call[c]
     IN IF resp.kind = "ok"
        THEN /\ call' = [call EXCEPT ![c] =
                           [Logged(cr, RespEvent(resp)) EXCEPT
                              !.pc = "done", !.result = "ok"]]
             /\ UNCHANGED <<tokenData, tokenReqs>>
        ELSE IF Sent(cr) = 2
        THEN \* the retry failed (utils.mjs 88-91)
             /\ call' = [call EXCEPT ![c] =
                           [Logged(cr, RespEvent(resp)) EXCEPT
                              !.pc = "done",
                              !.result = "Node-RED API authentication error"]]
             /\ UNCHANGED <<tokenData, tokenReqs>>
        ELSE IF IsUnauthorized(resp)
        THEN IF authManager /\ config.nodeRedUsername # ""
             THEN \* clearToken(), then getAuthHeaders() up to its await
                  /\ tokenData' = NULL
                  /\ CallGetValidToken(c,
                       Logged(Logged(cr, RespEvent(resp)), "clear"), NULL)
             ELSE /\ call' = [call EXCEPT ![c] =
                                [Logged(cr, RespEvent(resp)) EXCEPT
                                   !.pc = "done",
                                   !.result = "Node-RED API authentication failed"]]
                  /\ UNCHANGED <<tokenData, tokenReqs>>
        ELSE /\ call' = [call EXCEPT ![c] =
                           [Logged(cr, RespEvent(resp)) EXCEPT
                              !.pc = "done", !.result = "Node-RED API error"]]
             /\ UNCHANGED <<tokenData, tokenReqs>>
  /\ UNCHANGED <<config, authManager, now, calls, lastAccepted>>

\* ------------------------------------------------------ CoordinateManager
\* A coordinate of a node as JSON gives it: a number, or none (the field is
\* absent or holds something else). typeof v === 'number'.
Undefined == [undefined |-> TRUE]
IsNumber(v) == v # Undefined

\* A node of a flow: wires lists the target ids of its outputs in order.
Node(id, type, x, y, wires) ==
  [id |-> id, type |-> type, x |-> x, y |-> y, z |-> "", wires |-> wires,
   name |-> ""]

Pos(x, y) == [x |-> x, y |-> y]
Abs(n) == IF n < 0 THEN -n ELSE n
Min(S) == CHOOSE m \in S : \A n \in S : m <= n
Max(S) == CHOOSE m \in S : \A n \in S : n <= m

\* new CoordinateManager(): the defaults of the constructor.
gridSize == 20
nodeWidth == 120
nodeHeight == 30

\* getExistingCoordinates(): the coordinates of the nodes of the flow that
\* have a numeric x and y (a Set of 'x,y' strings that the readers split
\* and convert back: a set of pairs) and their bounding box; the default
\* bounds when there is none, and when the flow cannot be read.
DefaultBounds == [minX |-> 100, maxX |-> 100, minY |-> 100, maxY |-> 100]
GetExistingCoordinates(flowNodes, fetched) ==
  LET placed == {i \in 1..Len(flowNodes) :
                   IsNumber(flowNodes[i].x) /\ IsNumber(flowNodes[i].y)}
      coords == {<<flowNodes[i].x.v, flowNodes[i].y.v>> : i \in placed}
  IN IF ~fetched \/ coords = {}
     THEN [coords |-> {}, bounds |-> DefaultBounds]
     ELSE [coords |-> coords,
           bounds |-> [minX |-> Min({c[1] : c \in coords}),
                       maxX |-> Max({c[1] : c \in coords}),
                       minY |-> Min({c[2] : c \in coords}),
                       maxY |-> Max({c[2] : c \in coords})]]

\* calculateSafeZone(): the region for new nodes, below the existing ones.
SAFE_MARGIN == 150
NODES_PER_ROW == 4
NODE_SPACING_X == 250
NODE_SPACING_Y == 120
CalculateSafeZone(bounds, nodeCount) ==
  [startX |-> Max({100, bounds.minX}), startY |-> bounds.maxY + SAFE_MARGIN,
   nodesPerRow |-> NODES_PER_ROW, spacingX |-> NODE_SPACING_X,
   spacingY |-> NODE_SPACING_Y]

\* checkCoordinateCollision(): (x, y) is closer than a node's size plus a
\* buffer of 20 to an occupied position, in both directions.
collisionBuffer == 20
CheckCoordinateCollision(x, y, existingCoords) ==
  \E c \in existingCoords :
    /\ Abs(x - c[1]) < nodeWidth + collisionBuffer
    /\ Abs(y - c[2]) < nodeHeight + collisionBuffer

\* Mutant: the fallback on a safe zone is the second cell of its first row.
AutoLayoutPositionSecondCell(existingCoords, safeZone) ==
  IF existingCoords = {} THEN Pos(100, 100)
  ELSE IF safeZone # NULL
       THEN Pos(safeZone.startX + NODE_SPACING_X, safeZone.startY)
       ELSE Pos(Max({0} \cup {c[1] : c \in existingCoords}) + 200,
                Min({100} \cup {c[2] : c \in existingCoords}))

\* autoLayoutPosition(): (100, 100) on an empty canvas, else the anchor of
\* the safe zone, else (without a safe zone) right of the rightmost node.
AutoLayoutPosition(existingCoords, safeZone) ==
  IF existingCoords = {} THEN Pos(100, 100)
  ELSE IF safeZone # NULL THEN Pos(safeZone.startX, safeZone.startY)
       ELSE Pos(Max({0} \cup {c[1] : c \in existingCoords}) + 200,
                Min({100} \cup {c[2] : c \in existingCoords}))

\* The offsets (dx, dy) the search tests at one radius: the whole square
\* but its centre, positive coordinates only, no row above the safe zone.
maxRadius == 20
TestedCells(searchRadius, preferredX, preferredY, safeZone) ==
  {d \in (-searchRadius..searchRadius) \X (-searchRadius..searchRadius) :
     /\ d # <<0, 0>>
     /\ preferredX + d[1] * gridSize >= 0
     /\ preferredY + d[2] * gridSize >= 0
     /\ safeZone # NULL => preferredY + d[2] * gridSize >= safeZone.startY}

\* The loops run dx from -radius up and, for each dx, dy from -radius up.
FirstCell(S) ==
  CHOOSE d \in S :
    \A e \in S : d[1] < e[1] \/ (d[1] = e[1] /\ d[2] <= e[2])

\* The while loop of findAvailablePosition(): radius 1 to maxRadius, then
\* autoLayoutPosition().
RECURSIVE SpiralSearch(_, _, _, _, _)
SpiralSearch(searchRadius, preferredX, preferredY, existingCoords, safeZone) ==
  IF searchRadius > maxRadius
  THEN AutoLayoutPosition(existingCoords, safeZone)
  ELSE LET free ==
             {d \in TestedCells(searchRadius, preferredX, preferredY, safeZone) :
                ~CheckCoordinateCollision(preferredX + d[1] * gridSize,
                                          preferredY + d[2] * gridSize,
                                          existingCoords)}
       IN IF free # {}
          THEN Pos(preferredX + FirstCell(free)[1] * gridSize,
                   preferredY + FirstCell(free)[2] * gridSize)
          ELSE SpiralSearch(searchRadius + 1, preferredX, preferredY,
                            existingCoords, safeZone)

\* findAvailablePosition(preferredX, preferredY, existingCoords, safeZone)
FindAvailablePosition(preferredX, preferredY, existingCoords, safeZone) ==
  LET safeX == IF safeZone # NULL /\ preferredX < safeZone.startX
               THEN safeZone.startX ELSE preferredX
      safeY == IF safeZone # NULL /\ preferredY < safeZone.startY
               THEN safeZone.startY ELSE preferredY
  IN IF safeZone # NULL /\ ~CheckCoordinateCollision(safeX, safeY, existingCoords)
     THEN Pos(safeX, safeY)
     ELSE IF ~CheckCoordinateCollision(preferredX, preferredY, existingCoords)
          THEN Pos(preferredX, preferredY)
          ELSE SpiralSearch(1, preferredX, preferredY, existingCoords, safeZone)

\* ------------------------------------------------------ AutoLayoutManager
\* How a layout strategy ends: it returns the nodes, it throws, or it never
\* returns (hung); coords is existingCoords as the strategy leaves it.
Outcome(status, nodes, coords) ==
  [status |-> status, nodes |-> nodes, coords |-> coords]

Range(f) == {f[i] : i \in DOMAIN f}
HasId(nodes, id) == \E i \in 1..Len(nodes) : nodes[i].id = id
\* nodeMap.get(id): of the nodes with this id, the one set last.
IndexOf(nodes, id) == Max({i \in 1..Len(nodes) : nodes[i].id = id})

\* The forEach of the strategies: each node in turn gets the position
\* findAvailablePosition() returns for its preferred one, and that position
\* is added to existingCoords before the next node is placed.
RECURSIVE PlaceInOrder(_, _, _, _)
PlaceInOrder(todo, nodes, existingCoords, safeZone) ==
  IF todo = <<>> THEN Outcome("returned", nodes, existingCoords)
  ELSE LET t == Head(todo)
           position == FindAvailablePosition(t.x, t.y, existingCoords, safeZone)
       IN PlaceInOrder(Tail(todo),
                       [nodes EXCEPT ![t.index].x = Num(position.x),
                                     ![t.index].y = Num(position.y)],
                       existingCoords \cup {<<position.x, position.y>>},
                       safeZone)

\* collisionFreeLayout(): node i prefers cell i of the safe zone's rows.
CollisionFreeLayout(nodes, existingCoords, safeZone) ==
  PlaceInOrder(
    [i \in 1..Len(nodes) |->
       [index |-> i,
        x |-> safeZone.startX
                + ((i - 1) % safeZone.nodesPerRow) * safeZone.spacingX,
        y |-> safeZone.startY
                + ((i - 1) \div safeZone.nodesPerRow) * safeZone.spacingY]],
    nodes, existingCoords, safeZone)

\* Mutant: the grid starts from the coordinates the nodes come with.
GridLayoutFromOwnPosition(nodes, existingCoords, safeZone) ==
  PlaceInOrder(
    [i \in 1..Len(nodes) |->
       [index |-> i,
        x |-> nodes[i].x.v + safeZone.startX
                + ((i - 1) % safeZone.nodesPerRow) * safeZone.spacingX,
        y |-> nodes[i].y.v + safeZone.startY
                + ((i - 1) \div safeZone.nodesPerRow) * safeZone.spacingY]],
    nodes, existingCoords, safeZone)

\* gridLayout(): the class defines it twice; the later definition (1101)
\* replaces the earlier one (1049) and lays the nodes out on the cells of
\* the safe zone like collisionFreeLayout().
GridLayout(nodes, existingCoords, safeZone) ==
  PlaceInOrder(
    [i \in 1..Len(nodes) |->
       [index |-> i,
        x |-> safeZone.startX
                + ((i - 1) % safeZone.nodesPerRow) * safeZone.spacingX,
        y |-> safeZone.startY
                + ((i - 1) \div safeZone.nodesPerRow) * safeZone.spacingY]],
    nodes, existingCoords, safeZone)

\* A Set built from a list keeps the first occurrence of each element.
RECURSIVE Dedup(_)
Dedup(s) ==
  IF s = <<>> THEN <<>>
  ELSE LET rest == Dedup(SubSeq(s, 1, Len(s) - 1))
       IN IF s[Len(s)] \in Range(rest) THEN rest ELSE Append(rest, s[Len(s)])

\* dagre_left_right(), the graph: the outputs of a node are its wire
\* targets that belong to the batch, its inputs the nodes wired to it.
Outputs(nodes, id) ==
  LET IsNode(t) == HasId(nodes, t)
  IN Dedup(SelectSeq(nodes[IndexOf(nodes, id)].wires, IsNode))
Inputs(nodes, id) ==
  {nodes[i].id : i \in {j \in 1..Len(nodes) :
                           id \in Range(Outputs(nodes, nodes[j].id))}}

\* The roots: the nodes without inputs, in batch order; the first node when
\* there is none.
RootNodes(nodes) ==
  LET IsRoot(id) == Inputs(nodes, id) = {}
      roots == SelectSeq([i \in 1..Len(nodes) |-> nodes[i].id], IsRoot)
  IN IF roots = <<>> THEN <<nodes[1].id>> ELSE roots

\* levelMap, a Map from id to level: its keys in insertion order.
NoLevels == [order |-> <<>>, level |-> [id \in {} |-> 0]]
HasLevel(levelMap, id) == id \in DOMAIN levelMap.level
SetLevel(levelMap, id, v) ==
  [order |-> IF HasLevel(levelMap, id) THEN levelMap.order
             ELSE Append(levelMap.order, id),
   level |-> [k \in DOMAIN levelMap.level \cup {id} |->
                IF k = id THEN v ELSE levelMap.level[k]]]

\* Mutant: a node keeps the level of the entry that reached it first.
RECURSIVE AssignLevelsFirstSeen(_, _, _)
AssignLevelsFirstSeen(queue, levelMap, nodes) ==
  IF queue = <<>> THEN [hung |-> FALSE, levelMap |-> levelMap]
  ELSE LET e == Head(queue)
       IN IF e.level >= Len(nodes) THEN [hung |-> TRUE, levelMap |-> levelMap]
          ELSE LET lm == IF HasLevel(levelMap, e.id) THEN levelMap
                         ELSE SetLevel(levelMap, e.id, e.level)
                   Behind(o) == ~HasLevel(lm, o)
                   outs == SelectSeq(Outputs(nodes, e.id), Behind)
               IN AssignLevelsFirstSeen(
                    Tail(queue) \o [k \in 1..Len(outs) |->
                                      [id |-> outs[k], level |-> e.level + 1]],
                    lm, nodes)

\* The while loop over the queue: an entry raises the level of its node to
\* its own and queues every output whose level is lower than the next one.
\* An entry of level Len(nodes) has come along a wire path that passes a
\* node twice: on such a cycle the levels rise for ever and the loop never
\* ends.
RECURSIVE AssignLevels(_, _, _)
AssignLevels(queue, levelMap, nodes) ==
  IF queue = <<>> THEN [hung |-> FALSE, levelMap |-> levelMap]
  ELSE LET e == Head(queue)
       IN IF e.level >= Len(nodes) THEN [hung |-> TRUE, levelMap |-> levelMap]
          ELSE LET lm == SetLevel(levelMap, e.id,
                                  IF HasLevel(levelMap, e.id)
                                  THEN Max({levelMap.level[e.id], e.level})
                                  ELSE e.level)
                   Behind(o) == ~HasLevel(lm, o) \/ lm.level[o] < e.level + 1
                   outs == SelectSeq(Outputs(nodes, e.id), Behind)
               IN AssignLevels(
                    Tail(queue) \o [k \in 1..Len(outs) |->
                                      [id |-> outs[k], level |-> e.level + 1]],
                    lm, nodes)

\* levelGroups: for each level of levelMap its nodes, in the order of the
\* keys of levelMap.
GroupByLevel(levelMap) ==
  [l \in {levelMap.level[id] : id \in DOMAIN levelMap.level} |->
     LET AtLevel(id) == levelMap.level[id] = l
     IN SelectSeq(levelMap.order, AtLevel)]

\* The nodes the queue never reached, in batch order: each gets the level
\* after the highest level levelGroups holds at that moment, and joins
\* levelGroups at that level.
RECURSIVE AddIsolated(_, _, _, _)
AddIsolated(i, nodes, levelMap, levelGroups) ==
  IF i > Len(nodes) THEN [levelMap |-> levelMap, levelGroups |-> levelGroups]
  ELSE IF HasLevel(levelMap, nodes[i].id)
       THEN AddIsolated(i + 1, nodes, levelMap, levelGroups)
       ELSE LET maxLevel == Max(DOMAIN levelGroups \cup {-1})
                isolatedLevel == maxLevel + 1
            IN AddIsolated(
                 i + 1, nodes, SetLevel(levelMap, nodes[i].id, isolatedLevel),
                 [l \in DOMAIN levelGroups \cup {isolatedLevel} |->
                    IF l = isolatedLevel
                    THEN Append(IF l \in DOMAIN levelGroups
                                THEN levelGroups[l] ELSE <<>>, nodes[i].id)
                    ELSE levelGroups[l]])

\* The levels dagre_left_right() gives the nodes of a batch that is not
\* empty: reached is levelMap when the queue is empty, levelMap and
\* levelGroups what the loop over the unreached nodes makes of them.
DagreLevels(nodes) ==
  LET roots == RootNodes(nodes)
      bfs == AssignLevels([k \in 1..Len(roots) |-> [id |-> roots[k], level |-> 0]],
                          NoLevels, nodes)
      all == AddIsolated(1, nodes, bfs.levelMap, GroupByLevel(bfs.levelMap))
  IN [hung |-> bfs.hung, reached |-> bfs.levelMap,
      levelMap |-> all.levelMap, levelGroups |-> all.levelGroups]

\* The preferred positions, level by level in rising order: level l at
\* startX + l * LEVEL_WIDTH, its k-th node at startY + (k - 1) * NODE_HEIGHT.
LEVEL_WIDTH == 250
NODE_HEIGHT == 80
RECURSIVE LevelPositions(_, _, _, _)
LevelPositions(level, levelGroups, nodes, safeZone) ==
  IF level > Max(DOMAIN levelGroups \cup {-1}) THEN <<>>
  ELSE (IF level \in DOMAIN levelGroups
        THEN [k \in 1..Len(levelGroups[level]) |->
                [index |-> IndexOf(nodes, levelGroups[level][k]),
                 x |-> safeZone.startX + level * LEVEL_WIDTH,
                 y |-> safeZone.startY + (k - 1) * NODE_HEIGHT]]
        ELSE <<>>)
       \o LevelPositions(level + 1, levelGroups, nodes, safeZone)

\* dagre_left_right(): on an empty batch nodes[0].id throws and the catch
\* hands the batch to collisionFreeLayout().
DagreLeftRight(nodes, existingCoords, safeZone) ==
  IF nodes = <<>> THEN CollisionFreeLayout(nodes, existingCoords, safeZone)
  ELSE LET levels == DagreLevels(nodes)
       IN IF levels.hung THEN Outcome("hung", nodes, existingCoords)
          ELSE PlaceInOrder(LevelPositions(0, levels.levelGroups, nodes, safeZone),
                            nodes, existingCoords, safeZone)

\* semanticArticleLayout(), the connection graph: outgoing lists every
\* wire target of a node, incoming the sources of the wires to it.
Outgoing(nodes, id) == nodes[IndexOf(nodes, id)].wires
Incoming(nodes, id) ==
  {nodes[i].id : i \in {j \in 1..Len(nodes) : id \in Range(nodes[j].wires)}}

\* findEntryPoints(): nodes without incoming wire, and trigger nodes.
IsTriggerType(type) == type \in {"inject", "http in", "mqtt in", "timer"}
FindEntryPoints(nodes) ==
  LET IsEntry(n) == Incoming(nodes, n.id) = {} \/ IsTriggerType(n.type)
  IN SelectSeq(nodes, IsEntry)

\* The branch of traceFunctionalChain() for several targets: those not
\* visited yet join the chain, in order.
RECURSIVE AddBranches(_, _, _, _)
AddBranches(targets, chain, visited, nodes) ==
  IF targets = <<>> THEN [chain |-> chain, visited |-> visited]
  ELSE IF HasId(nodes, Head(targets)) /\ Head(targets) \notin visited
       THEN AddBranches(Tail(targets), Append(chain, Head(targets)),
                        visited \cup {Head(targets)}, nodes)
       ELSE AddBranches(Tail(targets), chain, visited, nodes)

\* traceFunctionalChain(): follow single wires from the current node while
\* the target is a node not visited yet; stop at a branch or an end.
RECURSIVE TraceFunctionalChain(_, _, _, _)
TraceFunctionalChain(currentNode, chain, visited, nodes) ==
  LET targets == Outgoing(nodes, currentNode)
  IN IF Len(targets) = 1
     THEN IF HasId(nodes, targets[1]) /\ targets[1] \notin visited
          THEN TraceFunctionalChain(targets[1], Append(chain, targets[1]),
                                    visited \cup {targets[1]}, nodes)
          ELSE [chain |-> chain, visited |-> visited]
     ELSE IF Len(targets) > 1 THEN AddBranches(targets, chain, visited, nodes)
          ELSE [chain |-> chain, visited |-> visited]

\* identifyFunctionalChains(): one chain from every entry point not yet
\* visited, then one chain for every node left over. A chain is the list
\* of the ids of its nodes.
RECURSIVE ChainsFrom(_, _, _, _)
ChainsFrom(entryPoints, chains, visited, nodes) ==
  IF entryPoints = <<>> THEN [chains |-> chains, visited |-> visited]
  ELSE LET id == Head(entryPoints).id
       IN IF id \in visited
          THEN ChainsFrom(Tail(entryPoints), chains, visited, nodes)
          ELSE LET t == TraceFunctionalChain(id, <<id>>, visited \cup {id}, nodes)
               IN ChainsFrom(Tail(entryPoints), Append(chains, t.chain),
                             t.visited, nodes)
RECURSIVE Standalone(_, _, _, _)
Standalone(i, chains, visited, nodes) ==
  IF i > Len(nodes) THEN chains
  ELSE IF nodes[i].id \in visited THEN Standalone(i + 1, chains, visited, nodes)
       ELSE Standalone(i + 1, Append(chains, <<nodes[i].id>>),
                       visited \cup {nodes[i].id}, nodes)
IdentifyFunctionalChains(nodes) ==
  LET traced == ChainsFrom(FindEntryPoints(nodes), <<>>, {}, nodes)
  IN Standalone(1, traced.chains, traced.visited, nodes)

\* positionChainAsRow(): for the first node of a chain it calls
\* this.coordinateManager.findSafePosition(), which CoordinateManager does
\* not define: a TypeError, before any node has got a position.
PositionChainAsRowThrows(chain) == chain # <<>>

\* positionFunctionalChains() and semanticArticleLayout(): nothing catches
\* the error; without any chain the result is an empty list.
SemanticArticleLayout(nodes, existingCoords, safeZone) ==
  IF \E k \in 1..Len(IdentifyFunctionalChains(nodes)) :
       PositionChainAsRowThrows(IdentifyFunctionalChains(nodes)[k])
  THEN Outcome("thrown", nodes, existingCoords)
  ELSE Outcome("returned", <<>>, existingCoords)

\* applyAutoLayout(), the switch on the algorithm.
Algorithms == {"collision_free", "grid", "dagre_lr", "semantic_article"}
ApplyStrategy(algorithm, nodes, existingCoords, safeZone) ==
  CASE algorithm = "semantic_article" ->
         SemanticArticleLayout(nodes, existingCoords, safeZone)
    [] algorithm = "dagre_lr" -> DagreLeftRight(nodes, existingCoords, safeZone)
    [] algorithm = "grid" -> GridLayout(nodes, existingCoords, safeZone)
    [] OTHER -> CollisionFreeLayout(nodes, existingCoords, safeZone)

\* One run of applyAutoLayout(): its algorithm, whether the flow could be
\* read, existingCoords and the safe zone as computed before the strategy
\* ran, the batch it was given, how it ended and the nodes it returned.
NoRun ==
  [algorithm |-> "none", fetched |-> FALSE, existingCoords |-> {},
   safeZone |-> NULL, given |-> <<>>, status |-> "none", nodes |-> <<>>]
NoLayout == [pc |-> "idle", algorithm |-> "none", run |-> NoRun, prev |-> NoRun]

\* A tool calls applyAutoLayout(newNodes, flowId, config, algorithm), which
\* asks the server for the flow; a batch is laid out at most twice.
StartApplyAutoLayout(algorithm) ==
  /\ layout.pc \in {"idle", "done"}
  /\ layout.prev = NoRun
  /\ layout' = [pc |-> "await_flow", algorithm |-> algorithm, run |-> NoRun,
                prev |-> layout.run]
  /\ UNCHANGED <<flow, newNodes, probe, merged, validation, tool>>
  /\ UNCHANGED authVars

\* The answer to the request for the flow arrives, or the request fails
\* (getExistingCoordinates() catches that), and applyAutoLayout() runs to
\* its end: collisionFreeLayout(), gridLayout() and dagre_left_right()
\* write the positions into the nodes of the batch.
FlowResponse(fetched) ==
  /\ layout.pc = "await_flow"
  /\ LET existing == GetExistingCoordinates(flow, fetched)
         safeZone == CalculateSafeZone(existing.bounds, Len(newNodes))
         out == ApplyStrategy(layout.algorithm, newNodes, existing.coords,
                              safeZone)
     IN /\ layout' =
             [layout EXCEPT
                !.pc = IF out.status = "hung" THEN "hung" ELSE "done",
                !.run = [algorithm |-> layout.algorithm, fetched |-> fetched,
                         existingCoords |-> existing.coords,
                         safeZone |-> safeZone, given |-> newNodes,
                         status |-> out.status, nodes |-> out.nodes]]
        /\ newNodes' = IF out.status = "returned"
                          /\ layout.algorithm # "semantic_article"
                       THEN out.nodes ELSE newNodes
  /\ UNCHANGED <<flow, probe, merged, validation, tool>>
  /\ UNCHANGED authVars

\* ------------------------------------------------------------- mergeFlows
\* !v of JavaScript for a coordinate.
Falsy(v) == v = Undefined \/ v = Num(0) \/ v = NaN

\* Mutant: existingNodeMap knows no id.
InNodeMapNever(existingNodes, id) == FALSE

\* existingNodeMap: the existing nodes that have an id, by id; of several
\* with one id the last.
InNodeMap(existingNodes, id) == id # "" /\ HasId(existingNodes, id)

\* Mutant: the fields of the existing node win.
SpreadKeepsExisting(existingNode, newNode) == existingNode

\* { ...existingNode, ...newNode }: the fields of newNode win; a coordinate
\* or a name ("": no such field) that newNode does not have stays.
Spread(existingNode, newNode) ==
  [newNode EXCEPT !.x = IF newNode.x = Undefined THEN existingNode.x ELSE @,
                  !.y = IF newNode.y = Undefined THEN existingNode.y ELSE @,
                  !.name = IF newNode.name = "" THEN existingNode.name ELSE @]

\* Mutant: no coordinate is taken over.
ReplaceNodesAsGiven(existingNodes, incoming, preserveCoordinates) == incoming

\* mode 'replace': the new nodes are the nodes; with preserveCoordinates a
\* node whose id an existing node with numeric coordinates has takes these.
ReplaceNodes(existingNodes, incoming, preserveCoordinates) ==
  [i \in 1..Len(incoming) |->
     LET InCoordMap(n) == /\ n.id # "" /\ n.id = incoming[i].id
                          /\ IsNumber(n.x) /\ IsNumber(n.y)
         known == SelectSeq(existingNodes, InCoordMap)
     IN IF preserveCoordinates /\ known # <<>>
        THEN [incoming[i] EXCEPT !.x = known[Len(known)].x,
                                 !.y = known[Len(known)].y]
        ELSE incoming[i]]

\* The forEach over the new nodes in the modes 'merge' and 'add-only':
\* every new node gets the id of the flow as z; one whose id is in
\* existingNodeMap replaces that node in mode 'merge' and is skipped in
\* mode 'add-only'; any other is appended, at the next free place of a
\* column right of the existing nodes when it lacks a coordinate.
RECURSIVE MergeLoop(_, _, _, _, _, _, _, _, _)
MergeLoop(i, incoming, result, currentX, currentY, existingNodes, flowId, mode, preserveCoordinates) ==
  IF i > Len(incoming) THEN [nodes |-> result, incoming |-> incoming]
  ELSE LET newNode == [incoming[i] EXCEPT !.z = flowId]
       IN IF InNodeMap(existingNodes, newNode.id)
          THEN IF mode = "merge"
               THEN LET existingNode ==
                          existingNodes[IndexOf(existingNodes, newNode.id)]
                        updatedNode ==
                          IF preserveCoordinates
                          THEN [Spread(existingNode, newNode) EXCEPT
                                  !.x = existingNode.x, !.y = existingNode.y]
                          ELSE Spread(existingNode, newNode)
                        index == Min({k \in 1..Len(result) :
                                        result[k].id = newNode.id})
                    IN MergeLoop(i + 1, [incoming EXCEPT ![i] = newNode],
                                 [result EXCEPT ![index] = updatedNode],
                                 currentX, currentY, existingNodes, flowId,
                                 mode, preserveCoordinates)
               ELSE MergeLoop(i + 1, [incoming EXCEPT ![i] = newNode], result,
                              currentX, currentY, existingNodes, flowId, mode,
                              preserveCoordinates)
          ELSE IF Falsy(newNode.x) \/ Falsy(newNode.y)
               THEN LET placed == [newNode EXCEPT !.x = Num(currentX),
                                                  !.y = Num(currentY)]
                        wraps == currentY + 100 > 800
                    IN MergeLoop(i + 1, [incoming EXCEPT ![i] = placed],
                                 Append(result, placed),
                                 IF wraps THEN currentX + 300 ELSE currentX,
                                 IF wraps THEN 100 ELSE currentY + 100,
                                 existingNodes, flowId, mode,
                                 preserveCoordinates)
               ELSE MergeLoop(i + 1, [incoming EXCEPT ![i] = newNode],
                              Append(result, newNode), currentX, currentY,
                              existingNodes, flowId, mode, preserveCoordinates)

\* Mutant: every new node is appended to the flow.
MergeFlowsAppendsAll(existingNodes, flowId, incoming, mode, preserveCoordinates) ==
  [nodes |-> existingNodes \o incoming, incoming |-> incoming]

\* mergeFlows(existingFlow, newFlowData, mode, preserveCoordinates): nodes
\* is result.nodes, incoming the nodes of newFlowData as the call leaves
\* them.
MergeFlows(existingNodes, flowId, incoming, mode, preserveCoordinates) ==
  IF mode = "replace"
  THEN [nodes |-> ReplaceNodes(existingNodes, incoming, preserveCoordinates),
        incoming |-> incoming]
  ELSE LET numeric == {k \in 1..Len(existingNodes) :
                         IsNumber(existingNodes[k].x)
                         /\ IsNumber(existingNodes[k].y)}
           maxX == Max({0} \cup {existingNodes[k].x.v : k \in numeric})
       IN MergeLoop(1, incoming, existingNodes, maxX + 200, 100, existingNodes,
                    flowId, mode, preserveCoordinates)

\* A tool calls mergeFlows() on the flow it has read and the batch.
NoMerge ==
  [pc |-> "idle", mode |-> "none", preserveCoordinates |-> FALSE,
   given |-> <<>>, nodes |-> <<>>]
FlowId == "flow1"
CallMergeFlows(mode, preserveCoordinates) ==
  /\ merged.pc = "idle"
  /\ LET out == MergeFlows(flow, FlowId, newNodes, mode, preserveCoordinates)
     IN /\ merged' = [pc |-> "done", mode |-> mode,
                      preserveCoordinates |-> preserveCoordinates,
                      given |-> newNodes, nodes |-> out.nodes]
        /\ newNodes' = out.incoming
  /\ UNCHANGED <<flow, layout, probe, validation, tool>>
  /\ UNCHANGED authVars

\* A strategy calls findAvailablePosition().
NoProbe ==
  [pc |-> "idle", preferredX |-> 0, preferredY |-> 0, existingCoords |-> {},
   safeZone |-> NULL, position |-> NULL]
CallFindAvailablePosition ==
  /\ probe.pc = "called"
  /\ probe' = [probe EXCEPT
                 !.pc = "done",
                 !.position = FindAvailablePosition(
                                probe.preferredX, probe.preferredY,
                                probe.existingCoords, probe.safeZone)]
  /\ UNCHANGED <<flow, newNodes, layout, merged, validation, tool>>
  /\ UNCHANGED authVars

\* --------------------------------------------------- validateFlowStructure
\* The value of a node's wires as JSON gives it: kind "absent" (no such
\* field), "other" (a truthy value that is not an array) or "array"; each
\* element of an array is an array of target ids or something else.
Wires(kind, groups) == [kind |-> kind, groups |-> groups]
Group(ids) == [array |-> TRUE, ids |-> ids]
NotAGroup == [array |-> FALSE, ids |-> <<>>]
NoWires == Wires("absent", <<>>)

\* A node as a tool receives it: id and type "" when the field is missing,
\* wires as above.
RawNode(id, type, x, y, wires) ==
  [Node(id, type, x, y, <<>>) EXCEPT !.wires = wires]

\* flowData: nodes is an array, or flowData.nodes is missing or no array.
FlowData(nodes) == [array |-> TRUE, nodes |-> nodes]
NoNodes == [array |-> FALSE, nodes |-> <<>>]

\* An entry of errors: the index of the node (from 0), what is wrong, and
\* the id the message quotes.
Message(index, kind, id) == [index |-> index, kind |-> kind, id |-> id]

RECURSIVE Concat(_)
Concat(lists) ==
  IF lists = <<>> THEN <<>> ELSE Head(lists) \o Concat(Tail(lists))

\* nodeIds after the first forEach: every id some node has.
NodeIds(nodes) == {nodes[i].id : i \in 1..Len(nodes)} \ {""}

\* The first forEach, for the node at i: id missing or seen before, type
\* missing, a coordinate that is no number, wires that is no array.
NodeErrors(nodes, i) ==
  LET node == nodes[i]
      seen == {nodes[j].id : j \in 1..(i - 1)} \ {""}
  IN (IF node.id = "" THEN <<Message(i - 1, "id", "")>>
      ELSE IF node.id \in seen THEN <<Message(i - 1, "duplicate", node.id)>>
      ELSE <<>>)
     \o (IF node.type = "" THEN <<Message(i - 1, "type", node.id)>> ELSE <<>>)
     \o (IF ~IsNumber(node.x) \/ ~IsNumber(node.y)
         THEN <<Message(i - 1, "coordinates", node.id)>> ELSE <<>>)
     \o (IF node.wires.kind = "other"
         THEN <<Message(i - 1, "wires", node.id)>> ELSE <<>>)

\* The second forEach, for the node at i: every target id of an element of
\* wires that is an array, when no node has that id.
WireErrors(nodes, i) ==
  LET node == nodes[i]
      OfGroup(g) ==
        IF g.array
        THEN LET Dangling(targetId) ==
                   targetId # "" /\ targetId \notin NodeIds(nodes)
                 bad == SelectSeq(g.ids, Dangling)
             IN [k \in 1..Len(bad) |-> Message(i - 1, "target", bad[k])]
        ELSE <<>>
  IN IF node.wires.kind = "array"
     THEN Concat([k \in 1..Len(node.wires.groups) |->
                    OfGroup(node.wires.groups[k])])
     ELSE <<>>

\* validateFlowStructure(flowData): reading a field of an element that is
\* null throws a TypeError.
ValidateFlowStructure(flowData) ==
  IF ~flowData.array
  THEN [status |-> "returned", valid |-> FALSE,
        errors |-> <<Message(0, "nodes", "")>>]
  ELSE IF \E i \in 1..Len(flowData.nodes) : flowData.nodes[i] = NULL
  THEN [status |-> "thrown", valid |-> FALSE, errors |-> <<>>]
  ELSE LET nodes == flowData.nodes
           errors ==
             Concat([i \in 1..Len(nodes) |-> NodeErrors(nodes, i)])
             \o Concat([i \in 1..Len(nodes) |-> WireErrors(nodes, i)])
       IN [status |-> "returned", valid |-> errors = <<>>, errors |-> errors]

\* A tool calls validateFlowStructure().
NoValidation == [pc |-> "idle", flowData |-> NoNodes, result |-> NULL]
CallValidateFlowStructure ==
  /\ validation.pc = "called"
  /\ validation' = [validation EXCEPT
                      !.pc = "done",
                      !.result = ValidateFlowStructure(validation.flowData)]
  /\ UNCHANGED <<flow, newNodes, layout, probe, merged, tool>>
  /\ UNCHANGED authVars

\* ------------------------------------------ update-flow, add-nodes-to-flow
\* The nodes of a node-set that validateFlowStructure() has accepted, as
\* the layout strategies and mergeFlows() read them: the targets of the
\* elements of wires that are arrays, in order.
Flat(nodes) ==
  [i \in 1..Len(nodes) |->
     [nodes[i] EXCEPT
        !.wires = Concat([k \in 1..Len(nodes[i].wires.groups) |->
                            nodes[i].wires.groups[k].ids])]]

\* The nodes of a flow as validateFlowStructure() reads them.
Raw(nodes) ==
  [i \in 1..Len(nodes) |->
     [nodes[i] EXCEPT !.wires = Wires("array", <<Group(nodes[i].wires)>>)]]

\* An invocation of a tool: its arguments, the requests and calls it has
\* made so far (log), the flow it has read, what validateFlowStructure()
\* said of the new nodes and of the merged flow, the flow it sends, and
\* how it ended.
NoTool ==
  [pc |-> "idle", name |-> "none", mode |-> "none",
   preserveCoordinates |-> FALSE, algorithm |-> "none", input |-> NoNodes,
   existingFlow |-> <<>>, checkedIncoming |-> NULL, checkedMerged |-> NULL,
   finalFlow |-> <<>>, log |-> <<>>, result |-> ""]

\* The tool returns a text.
Returns(t, text) == [t EXCEPT !.pc = "done", !.result = text]

\* callNodeRed('get', '/flow/' + flowId) is sent.
GetsFlow(t) ==
  [t EXCEPT !.pc = "await_flow", !.log = Append(@, "GET /flow")]

\* After resolveFlowId(): update-flow asks for the flow; add-nodes-to-flow
\* parses nodesJson, which must be an array, and has the new nodes
\* validated before it asks for the flow.
AfterResolve(t) ==
  IF t.name = "update-flow" THEN GetsFlow(t)
  ELSE IF ~t.input.array THEN Returns(t, "Error: nodesJson must be an array")
  ELSE LET checked == ValidateFlowStructure(t.input)
           seen == [t EXCEPT !.checkedIncoming = checked,
                             !.log = Append(@, "validate new")]
       IN IF checked.status = "thrown" THEN Returns(seen, "Error")
          ELSE IF ~checked.valid THEN Returns(seen, "validation failed")
          ELSE GetsFlow(seen)

\* A client invokes update-flow or add-nodes-to-flow, with the id of the
\* flow or with its label, which resolveFlowId() looks up in /flows.
StartTool(name, byId, mode, preserveCoordinates, algorithm) ==
  /\ tool.pc = "idle"
  /\ LET t == [tool EXCEPT !.name = name, !.mode = mode,
                           !.preserveCoordinates = preserveCoordinates,
                           !.algorithm = algorithm]
     IN tool' = IF byId THEN AfterResolve(t)
                ELSE [t EXCEPT !.pc = "await_flows",
                               !.log = Append(@, "GET /flows")]
  /\ UNCHANGED <<flow, newNodes, layout, probe, merged, validation>>
  /\ UNCHANGED authVars

\* /flows is answered with a tab of that label, with none, or not at all.
FlowsResponse(outcome) ==
  /\ tool.pc = "await_flows"
  /\ tool' = CASE outcome = "found" -> AfterResolve(tool)
               [] outcome = "none" -> Returns(tool, "Flow not found")
               [] OTHER -> Returns(tool, "Error")
  /\ UNCHANGED <<flow, newNodes, layout, probe, merged, validation>>
  /\ UNCHANGED authVars


\* update-flow once it has the flow: the new nodes are validated, merged
\* into the flow in the mode asked for, the merged flow is validated, and
\* only then is it sent. out is what mergeFlows() returned.
UpdateFlowMerges(t, existingNodes) ==
  LET checked == ValidateFlowStructure(t.input)
      seen == [t EXCEPT !.existingFlow = existingNodes,
                        !.checkedIncoming = checked,
                        !.log = Append(@, "validate new")]
      out == MergeFlows(existingNodes, FlowId, Flat(t.input.nodes), t.mode,
                        t.preserveCoordinates)
      final == ValidateFlowStructure(FlowData(Raw(out.nodes)))
      done == [seen EXCEPT !.checkedMerged = final, !.finalFlow = out.nodes,
                           !.log = @ \o <<"merge", "validate merged">>]
  IN IF checked.status = "thrown" THEN [tool |-> Returns(seen, "Error"), merged |-> FALSE]
     ELSE IF ~checked.valid THEN [tool |-> Returns(seen, "validation failed"), merged |-> FALSE]
     ELSE IF ~final.valid
     THEN [tool |-> Returns(done, "validation failed"), merged |-> TRUE, out |-> out]
     ELSE [tool |-> [done EXCEPT !.pc = "await_put", !.log = Append(@, "PUT /flow")],
           merged |-> TRUE, out |-> out]

\* The nodes of the flow arrive, or the request fails and the tool returns
\* the error. update-flow goes on to the PUT or to its end;
\* add-nodes-to-flow calls applyAutoLayout(), which asks for the flow again.
ExistingFlowResponse(ok) ==
  /\ tool.pc = "await_flow"
  /\ IF ~ok
     THEN /\ tool' = Returns(tool, "Error")
          /\ UNCHANGED <<newNodes, merged>>
     ELSE IF tool.name = "update-flow"
     THEN LET step == UpdateFlowMerges(tool, flow)
          IN /\ tool' = step.tool
             /\ IF step.merged
                THEN /\ merged' = [pc |-> "done", mode |-> tool.mode,
                                   preserveCoordinates |-> tool.preserveCoordinates,
                                   given |-> Flat(tool.input.nodes),
                                   nodes |-> step.out.nodes]
                     /\ newNodes' = step.out.incoming
                ELSE UNCHANGED <<newNodes, merged>>
     ELSE /\ tool' = [tool EXCEPT !.pc = "await_layout",
                                  !.existingFlow = flow,
                                  !.log = Append(@, "GET /flow")]
          /\ newNodes' = Flat(tool.input.nodes)
          /\ UNCHANGED merged
  /\ UNCHANGED <<flow, layout, probe, validation>>
  /\ UNCHANGED authVars

\* add-nodes-to-flow: getExistingCoordinates() has its answer or its
\* failure, the strategy lays the new nodes out (or never ends), and the
\* tool merges them into the flow it read with mode add-only and sends the
\* result. The nodes modelled need no module, so /nodes is not asked for.
LayoutFlowResponse(fetched) ==
  /\ tool.pc = "await_layout"
  /\ LET existing == GetExistingCoordinates(flow, fetched)
         safeZone == CalculateSafeZone(existing.bounds, Len(newNodes))
         laid == ApplyStrategy(IF tool.algorithm = "auto" THEN "collision_free"
                               ELSE tool.algorithm,
                               newNodes, existing.coords, safeZone)
         out == MergeFlows(tool.existingFlow, FlowId, laid.nodes, "add-only", TRUE)
     IN IF laid.status = "hung"
        THEN /\ tool' = [tool EXCEPT !.pc = "hung"]
             /\ UNCHANGED <<newNodes, merged>>
        ELSE /\ tool' = [tool EXCEPT !.pc = "await_put",
                                     !.finalFlow = out.nodes,
                                     !.log = @ \o <<"merge", "PUT /flow">>]
             /\ merged' = [pc |-> "done", mode |-> "add-only",
                           preserveCoordinates |-> TRUE,
                           given |-> laid.nodes, nodes |-> out.nodes]
             /\ newNodes' = out.incoming
  /\ UNCHANGED <<flow, layout, probe, validation>>
  /\ UNCHANGED authVars

\* The server stores the flow sent, or the request fails.
PutResponse(ok) ==
  /\ tool.pc = "await_put"
  /\ tool' = Returns(tool, IF ok THEN "updated" ELSE "Error")
  /\ flow' = IF ok THEN tool.finalFlow ELSE flow
  /\ UNCHANGED <<newNodes, layout, probe, merged, validation>>
  /\ UNCHANGED authVars

\* ---------------------------------------------------------- specification
\* The state after construction: new NodeRedAuth(config) has no credential;
\* the server's start() sets the global manager when a username and a
\* password are configured.
InitWith(cfgs) ==
  /\ config \in cfgs
  /\ authManager = UsesAuthManager(config)
  /\ tokenData = NULL
  /\ now = 0
  /\ tokenReqs = 0
  /\ calls = 0
  /\ lastAccepted = NoAccepted
  /\ call = [c \in Callers |-> Idle]
  /\ flow = <<>>
  /\ newNodes = <<>>
  /\ layout = NoLayout
  /\ probe = NoProbe
  /\ merged = NoMerge
  /\ validation = NoValidation
  /\ tool = NoTool

\* One invocation at a time, in every configuration and environment.
Init == InitWith(Configs)

Next ==
  \/ /\ \E t \in Instants : Tick(t)
     /\ UNCHANGED canvasVars
  \/ /\ ClearToken(1)
     /\ UNCHANGED canvasVars
  \/ /\ StartGetValidToken(1)
     /\ UNCHANGED canvasVars
  \/ /\ StartGetAuthHeaders(1)
     /\ UNCHANGED canvasVars
  \/ /\ StartRefreshToken(1)
     /\ UNCHANGED canvasVars
  \/ /\ StartCallNodeRed(1)
     /\ UNCHANGED canvasVars
  \/ /\ \E resp \in AllTokenResponses : TokenResponse(1, resp)
     /\ UNCHANGED canvasVars
  \/ /\ ResumeGetAuthHeaders(1)
     /\ UNCHANGED canvasVars
  \/ /\ \E resp \in ApiResponses : ApiResponse(1, resp)
     /\ UNCHANGED canvasVars

Spec == Init /\ [][Next]_vars

\* Overlapping invocations within one instant, with a username and a
\* password configured. The token endpoint accepts or answers 401; a token
\* lives 30 s or 3600 s.
ConcurrentTokenResponses ==
  {r \in AllTokenResponses :
     \/ r.kind = "ok" /\ r.access_token # ""
                      /\ r.expires_in \in {Num(30), Num(3600)}
     \/ r.kind = "status" /\ r.status = 401}
ConcurrentApiResponses == {r \in ApiResponses : r.kind # "network"}

InitConcurrent == InitWith({cfg \in Configs : UsesAuthManager(cfg)})

NextConcurrent ==
  \/ /\ \E c \in Callers : StartGetValidToken(c)
     /\ UNCHANGED canvasVars
  \/ /\ \E c \in Callers : StartGetAuthHeaders(c)
     /\ UNCHANGED canvasVars
  \/ /\ \E c \in Callers : StartRefreshToken(c)
     /\ UNCHANGED canvasVars
  \/ /\ \E c \in Callers : StartCallNodeRed(c)
     /\ UNCHANGED canvasVars
  \/ /\ \E c \in Callers : \E resp \in ConcurrentTokenResponses :
          TokenResponse(c, resp)
     /\ UNCHANGED canvasVars
  \/ /\ \E c \in Callers : ResumeGetAuthHeaders(c)
     /\ UNCHANGED canvasVars
  \/ /\ \E c \in Callers : \E resp \in ConcurrentApiResponses :
          ApiResponse(c, resp)
     /\ UNCHANGED canvasVars

SpecConcurrent == InitConcurrent /\ [][NextConcurrent]_vars

\* ------------------------------------------------- specification: layout
\* The authentication manager at rest while nodes are laid out and merged.
NoAuth ==
  /\ config = [nodeRedToken |-> "", nodeRedUsername |-> "",
               nodeRedPassword |-> ""]
  /\ authManager = FALSE
  /\ tokenData = NULL
  /\ now = 0
  /\ tokenReqs = 0
  /\ calls = 0
  /\ lastAccepted = NoAccepted
  /\ call = [c \in Callers |-> Idle]

\* The elements of a list at the indexes I, in the order of the list.
Pick(list, I) ==
  LET In(i) == i \in I
      idx == SelectSeq([i \in 1..Len(list) |-> i], In)
  IN [k \in 1..Len(idx) |-> list[idx[k]]]

\* The flows on the server: up to MaxFlowNodes of these nodes, one of them
\* without coordinates. Node 2 lies where the first cell of the default
\* safe zone is.
ExistingCandidates ==
  <<Node("e1", "function", Num(40), Num(100), <<>>),
    Node("e2", "function", Num(100), Num(250), <<>>),
    Node("e3", "function", Num(300), Num(370), <<>>),
    Node("e4", "comment", Undefined, Undefined, <<>>)>>
Flows ==
  {Pick(ExistingCandidates, I) :
     I \in {J \in SUBSET (1..Len(ExistingCandidates)) :
              Cardinality(J) <= MaxFlowNodes}}

\* The batches: validateFlowStructure() has accepted them, so ids are
\* unique, coordinates numeric and wires lead to nodes of the batch. Up to
\* MaxBatch nodes without wires or wired in a row; every wiring of up to
\* three nodes, cycles included; and a row of three nodes with a fourth
\* node apart.
BatchIds == <<"n1", "n2", "n3", "n4", "n5", "n6", "n7", "n8">>
LooseBatch(k) ==
  [i \in 1..k |-> Node(BatchIds[i], "function", Num(0), Num(0), <<>>)]
ChainBatch(k) ==
  [i \in 1..k |-> Node(BatchIds[i], "function", Num(0), Num(0),
                       IF i < k THEN <<BatchIds[i + 1]>> ELSE <<>>)]
Batches == {LooseBatch(k) : k \in 0..MaxBatch} \cup {ChainBatch(k) : k \in 0..MaxBatch}
GraphIds == <<"A", "B", "C">>
Graphs ==
  UNION {{[i \in 1..n |-> Node(GraphIds[i], "function", Num(0), Num(0), w[i])] :
            w \in [1..n -> {Pick(SubSeq(GraphIds, 1, n), I) : I \in SUBSET (1..n)}]} :
         n \in 1..Len(GraphIds)}
ChainScenario ==
  <<Node("A", "inject", Num(0), Num(0), <<"B">>),
    Node("B", "function", Num(0), Num(0), <<"C">>),
    Node("C", "function", Num(0), Num(0), <<>>),
    Node("D", "function", Num(0), Num(0), <<>>)>>

InitLayout ==
  /\ NoAuth
  /\ \/ flow \in Flows /\ newNodes \in Batches
     \/ flow = Pick(ExistingCandidates, {3})
        /\ newNodes \in Graphs \cup {ChainScenario}
  /\ layout = NoLayout
  /\ probe = NoProbe
  /\ merged = NoMerge
  /\ validation = NoValidation
  /\ tool = NoTool

NextLayout ==
  \/ \E algorithm \in Algorithms : StartApplyAutoLayout(algorithm)
  \/ \E fetched \in BOOLEAN : FlowResponse(fetched)

SpecLayout == InitLayout /\ [][NextLayout]_vars

\* --------------------------------------- specification: position search
\* findAvailablePosition() on its own: up to MaxCoords occupied positions,
\* among them two 10 px apart and a row that closes the safe zone's first
\* row; preferred positions in, left of and above the safe zone.
ProbePoints ==
  {<<100, 100>>, <<110, 100>>, <<100, 500>>, <<370, 500>>, <<100, 560>>,
   <<640, 500>>}
ProbePreferred == {<<100, 100>>, <<100, 500>>, <<40, 500>>, <<350, 500>>}
ProbeZones ==
  {CalculateSafeZone([minX |-> 100, maxX |-> 100, minY |-> 100, maxY |-> maxY], 1) :
     maxY \in {100, 350}}

InitPosition ==
  /\ NoAuth
  /\ flow = <<>>
  /\ newNodes = <<>>
  /\ layout = NoLayout
  /\ merged = NoMerge
  /\ validation = NoValidation
  /\ tool = NoTool
  /\ \E p \in ProbePreferred : \E zone \in ProbeZones :
       \E coords \in {c \in SUBSET ProbePoints : Cardinality(c) <= MaxCoords} :
         probe = [pc |-> "called", preferredX |-> p[1], preferredY |-> p[2],
                  existingCoords |-> coords, safeZone |-> zone,
                  position |-> NULL]

NextPosition == CallFindAvailablePosition

SpecPosition == InitPosition /\ [][NextPosition]_vars

\* -------------------------------------------------- specification: merge
\* mergeFlows() on its own: the new nodes carry ids the flow has and ids it
\* has not, with no, with zero and with other coordinates.
IncomingCandidates ==
  {[Node(id, "function", c[1], c[2], <<>>) EXCEPT !.name = "new"] :
     id \in {"e1", "n1", "n2"},
     c \in {<<Undefined, Undefined>>, <<Num(0), Num(0)>>,
            <<Num(500), Num(600)>>}}
IncomingBatches ==
  UNION {[1..n -> IncomingCandidates] : n \in 0..MaxIncoming}
MergeModes == {"replace", "merge", "add-only"}

InitMerge ==
  /\ NoAuth
  /\ flow \in Flows
  /\ newNodes \in IncomingBatches
  /\ layout = NoLayout
  /\ probe = NoProbe
  /\ merged = NoMerge
  /\ validation = NoValidation
  /\ tool = NoTool

NextMerge ==
  \E mode \in MergeModes : \E preserveCoordinates \in BOOLEAN :
    CallMergeFlows(mode, preserveCoordinates)

SpecMerge == InitMerge /\ [][NextMerge]_vars

\* --------------------------------------------- specification: validation
\* validateFlowStructure() on its own. The node-sets are what JSON.parse
\* can give a tool: for each of two ids a sound node without wires, wired
\* to either id, and nodes with one thing wrong (a target no node has, no
\* type, no coordinates, wires that is no array, wires holding something
\* that is no array); a node without id and with nothing else right; and
\* null.
SetIds == {"a", "b"}
NodeCandidates ==
  UNION {{RawNode(id, "function", Num(0), Num(100), NoWires),
          RawNode(id, "function", Num(0), Num(100), Wires("array", <<Group(<<"a">>)>>)),
          RawNode(id, "function", Num(0), Num(100), Wires("array", <<Group(<<"b">>)>>)),
          RawNode(id, "function", Num(0), Num(100), Wires("array", <<Group(<<"zz">>)>>)),
          RawNode(id, "", Num(0), Num(100), Wires("array", <<>>)),
          RawNode(id, "function", Undefined, Num(100), NoWires),
          RawNode(id, "function", Num(0), Num(100), Wires("other", <<>>)),
          RawNode(id, "function", Num(0), Num(100), Wires("array", <<NotAGroup>>))} :
         id \in SetIds}
  \cup {RawNode("", "", Undefined, Undefined, Wires("other", <<>>)), NULL}
NodeSets ==
  {NoNodes} \cup
  {FlowData(nodes) : nodes \in UNION {[1..n -> NodeCandidates] : n \in 0..MaxNodeSet}}

InitValidation ==
  /\ NoAuth
  /\ flow = <<>>
  /\ newNodes = <<>>
  /\ layout = NoLayout
  /\ probe = NoProbe
  /\ merged = NoMerge
  /\ validation \in {[NoValidation EXCEPT !.pc = "called", !.flowData = d] :
                       d \in NodeSets}
  /\ tool = NoTool

NextValidation == CallValidateFlowStructure

SpecValidation == InitValidation /\ [][NextValidation]_vars

\* -------------------------------------------------- specification: tools
\* One invocation of update-flow or add-nodes-to-flow. The flow on the
\* server is empty, or holds two wired nodes, or these and a configuration
\* node, which has no coordinates.
ToolFlows ==
  {<<>>,
   <<[Node("e1", "function", Num(40), Num(100), <<"e2">>) EXCEPT !.name = "old"],
     Node("e2", "function", Num(100), Num(250), <<>>)>>,
   <<[Node("e1", "function", Num(40), Num(100), <<"e2">>) EXCEPT !.name = "old"],
     Node("e2", "function", Num(100), Num(250), <<>>),
     Node("e4", "mqtt-broker", Undefined, Undefined, <<>>)>>}

\* The new nodes: node e1 of the flow again, renamed and wired to n1 or
\* with no name and no wire; new nodes n1 and n2 wired to each other or
\* not at all; nodes validateFlowStructure() refuses or cannot read; and
\* a node with coordinates under the id of the configuration node.
ToolCandidates ==
  {[RawNode("e1", "function", Num(500), Num(600), Wires("array", <<Group(<<"n1">>)>>))
      EXCEPT !.name = "new"],
   RawNode("e1", "function", Num(500), Num(600), Wires("array", <<>>)),
   RawNode("n1", "function", Num(0), Num(0), Wires("array", <<Group(<<"n2">>)>>)),
   RawNode("n1", "function", Num(700), Num(100), NoWires),
   RawNode("n2", "function", Num(0), Num(0), Wires("array", <<Group(<<"n1">>)>>)),
   RawNode("n2", "function", Num(0), Num(0), Wires("array", <<Group(<<"e2">>)>>)),
   RawNode("n1", "function", Num(0), Num(0), Wires("array", <<NotAGroup>>)),
   RawNode("n1", "function", Undefined, Undefined, NoWires),
   RawNode("e4", "function", Num(500), Num(600), Wires("array", <<>>)),
   NULL}
ToolInputs ==
  {NoNodes} \cup
  {FlowData(nodes) : nodes \in UNION {[1..n -> ToolCandidates] : n \in 0..MaxIncoming}}

InitTools ==
  /\ NoAuth
  /\ flow \in ToolFlows
  /\ newNodes = <<>>
  /\ layout = NoLayout
  /\ probe = NoProbe
  /\ merged = NoMerge
  /\ validation = NoValidation
  /\ tool \in {[NoTool EXCEPT !.input = d] : d \in ToolInputs}

NextTools ==
  \/ \E byId \in BOOLEAN : \E mode \in MergeModes :
       \E preserveCoordinates \in BOOLEAN :
         StartTool("update-flow", byId, mode, preserveCoordinates, "none")
  \/ \E byId \in BOOLEAN :
       \E algorithm \in {"auto", "collision_free", "dagre_lr", "grid"} :
         StartTool("add-nodes-to-flow", byId, "add-only", TRUE, algorithm)
  \/ \E outcome \in {"found", "none", "failed"} : FlowsResponse(outcome)
  \/ \E ok \in BOOLEAN : ExistingFlowResponse(ok)
  \/ \E fetched \in BOOLEAN : LayoutFlowResponse(fetched)
  \/ \E ok \in BOOLEAN : PutResponse(ok)

SpecTools == InitTools /\ [][NextTools]_vars

\* ------------------------------------------------------------------ claims
Last(s) == s[Len(s)]

\* Positions of the upstream requests in a call's log.
Sends(s) == {i \in 1..Len(s) : s[i] = "send"}
FirstSend(s) == CHOOSE i \in Sends(s) : \A j \in Sends(s) : i <= j
LastSend(s) == CHOOSE i \in Sends(s) : \A j \in Sends(s) : j <= i
\* The first upstream request was answered with HTTP 401.
First401(s) ==
  Sends(s) # {} /\ FirstSend(s) < Len(s) /\ s[FirstSend(s) + 1] = "resp_401"
\* A token refresh succeeded after clearToken().
RefreshedAfterClear(s) ==
  \E i, j \in 1..Len(s) : i < j /\ s[i] = "clear" /\ s[j] = "tok_ok"

\* A callNodeRed invocation that goes through the authentication manager.
DynamicCall(c) == call[c].op = "callNodeRed" /\ UsesAuthManager(config)

\* In this step caller 1 starts an invocation of op.
Called(op) == calls' = calls + 1 /\ call'[1].op = op

\* C1 as stated: a finished callNodeRed with username/password auth has
\* sent at most two upstream requests, and has sent the second one when and
\* only when the first response was HTTP 401.
C1_AsStated ==
  \A c \in Callers :
    DynamicCall(c) /\ call[c].pc = "done" =>
      /\ Sent(call[c]) <= 2
      /\ Sent(call[c]) = 2 <=> First401(call[c].log)

\* C1 as amended: callNodeRed with username/password auth sends at most two
\* upstream requests; it re-sends exactly when the first response is HTTP
\* 401 and the token refresh that follows clearToken() succeeds; between
\* the two requests lie exactly the 401, clearToken(), a token request and
\* its accepted answer, and the retry carries the token of that answer;
\* every other failure of the first request, a failed refresh and any
\* failure of the retry end the call with an error.
C1_RetryOnce ==
  \A c \in Callers :
    DynamicCall(c) =>
      LET cr == call[c]
          s == cr.log
      IN /\ Sent(cr) <= 2
         /\ Sent(cr) = 2 =>
              /\ SubSeq(s, FirstSend(s) + 1, LastSend(s) - 1)
                   = <<"resp_401", "clear", "tokreq", "tok_ok">>
              /\ cr.hdr.token = IssuedToken(cr.req)
              /\ cr.tok = IssuedToken(cr.req)
         /\ cr.pc = "done" =>
              /\ Sent(cr) = 2 <=> (First401(s) /\ RefreshedAfterClear(s))
              /\ Last(s) \in {"resp_ok", "resp_err", "resp_401", "tok_fail"}
              /\ cr.result = "ok" <=> Last(s) = "resp_ok"

\* C1 witness: a call whose first request got 401 ended after a retry that
\* got 401 too.
C1_Witness ==
  /\ DynamicCall(1)
  /\ call[1].pc = "done"
  /\ Sent(call[1]) = 2
  /\ First401(call[1].log)
  /\ Last(call[1].log) = "resp_401"
  /\ call[1].result = "Node-RED API authentication error"

\* C2: a getValidToken() call that does not use the static token sends a
\* token request only if isTokenValid() is false at the call; when it is
\* true the call returns the cached token at once, sends nothing and leaves
\* the credential as it is.
C2_RefreshOnlyWhenInvalid ==
  [][(Called("getValidToken") /\ ~(config.nodeRedToken # ""
                                    /\ config.nodeRedUsername = "")) =>
       /\ tokenReqs' # tokenReqs => ~IsTokenValid(tokenData, now)
       /\ IsTokenValid(tokenData, now) =>
            /\ tokenReqs' = tokenReqs
            /\ tokenData' = tokenData
            /\ call'[1].pc = "done"
            /\ call'[1].result = "ok"
            /\ call'[1].tok = tokenData.token]_vars

\* C2 witness: after one refresh, two getValidToken() calls in a row were
\* served from the cache.
C2_Witness ==
  /\ calls = 3
  /\ tokenReqs = 1
  /\ call[1].op = "getValidToken"
  /\ call[1].log = <<"cached">>
  /\ call[1].tok = tokenData.token
  /\ lastAccepted.by = 1

\* C3: isTokenValid() is true exactly when a credential with a token is
\* cached and now < expiresAt - 60000; it is false as long as no token
\* request has been sent.
C3_ValidIffBeforeBuffer ==
  /\ IsTokenValid(tokenData, now) <=>
       /\ tokenData # NULL
       /\ tokenData.token # ""
       /\ ~tokenData.expiresAt.nan
       /\ now < tokenData.expiresAt.v - 60000
  /\ tokenReqs = 0 => ~IsTokenValid(tokenData, now)

\* C3 witness: the clock stands exactly at expiresAt - 60000 of the cached
\* credential, and the credential is not valid.
C3_Witness ==
  /\ tokenData # NULL
  /\ ~tokenData.expiresAt.nan
  /\ tokenData.expiresAt.v > tokenData.obtainedAt
  /\ now = tokenData.expiresAt.v - 60000
  /\ ~IsTokenValid(tokenData, now)

\* In this step caller 1 ran clearToken(): called on its own, or by
\* callNodeRed on a 401.
ClearStep ==
  \/ Called("clearToken")
  \/ /\ call[1].pc = "await_api"
     /\ Count(call'[1].log, "clear") = Count(call[1].log, "clear") + 1
\* In this step caller 1's refreshToken() processed an answer.
RefreshStep(ev) ==
  /\ call[1].pc = "await_token"
  /\ Len(call'[1].log) = Len(call[1].log) + 1
  /\ Last(call'[1].log) = ev
\* In this step caller 1's refreshToken() rejected for a missing credential.
RejectStep ==
  /\ calls' = calls + 1
  /\ call'[1].error = "Username and password are required"

\* C4: the cached credential changes only by clearToken(), which leaves it
\* absent, and by a successful refreshToken(), which sets every field from
\* the accepted response and the time; a refreshToken() that fails, for
\* whatever cause, leaves it as it was.
C4_CredentialFrame ==
  [][/\ tokenData' # tokenData =>
          \/ ClearStep /\ tokenData' = NULL
          \/ /\ RefreshStep("tok_ok")
             /\ lastAccepted'.at = now
             /\ LET r == lastAccepted'.resp
                IN tokenData' =
                     [token |-> r.access_token,
                      tokenType |-> IF r.token_type = "" THEN "Bearer"
                                    ELSE r.token_type,
                      expiresAt |-> JsAdd(Num(now), JsMul(r.expires_in, Num(1000))),
                      obtainedAt |-> now,
                      expiresIn |-> r.expires_in]
     /\ RefreshStep("tok_fail") \/ RejectStep => tokenData' = tokenData]_vars

\* C4 witness: a second refreshToken() failed and the credential of the
\* first one is still cached.
C4_Witness ==
  /\ call[1].op = "refreshToken"
  /\ call[1].pc = "done"
  /\ call[1].req = 2
  /\ call[1].error = "Invalid username or password"
  /\ tokenData # NULL
  /\ tokenData.token = IssuedToken(1)

\* Two getValidToken() calls that both found the credential invalid, both
\* sent a token request and both had their answer accepted.
BothRefreshed(c1, c2) ==
  /\ c1 # c2
  /\ \A c \in {c1, c2} :
       /\ call[c].op = "getValidToken"
       /\ call[c].pc = "done"
       /\ ~call[c].valid
       /\ call[c].log = <<"tokreq", "tok_ok">>

\* The credential refreshToken() builds from the response accepted last.
LastCredential ==
  LET r == lastAccepted.resp
  IN [token |-> r.access_token,
      tokenType |-> IF r.token_type = "" THEN "Bearer" ELSE r.token_type,
      expiresAt |-> JsAdd(Num(lastAccepted.at), JsMul(r.expires_in, Num(1000))),
      obtainedAt |-> lastAccepted.at,
      expiresIn |-> r.expires_in]

\* Each caller got the token of its own response, and the cached credential
\* is, field by field, the one of the response processed last.
LastWriteWins(c1, c2) ==
  /\ \A c \in {c1, c2} : call[c].tok = IssuedToken(call[c].req)
  /\ call[c1].tok # call[c2].tok
  /\ lastAccepted.by \in {c1, c2}
  /\ tokenData = LastCredential
  /\ tokenData.token = call[lastAccepted.by].tok

\* C5 as stated: after two concurrent getValidToken() calls that both
\* refreshed, the cached credential is the one of the response processed
\* last, each caller has the token of its own response, and the manager is
\* in the Valid state.
C5_AsStated ==
  \A c1, c2 \in Callers :
    BothRefreshed(c1, c2) =>
      LastWriteWins(c1, c2) /\ IsTokenValid(tokenData, now)

\* C5 as amended: after two concurrent getValidToken() calls that both
\* refreshed, the cached credential is the one of the response processed
\* last and each caller has the token of its own response; the manager is
\* then in the Valid state exactly when that response's expires_in is more
\* than the 60 s buffer, and Expired otherwise.
C5_LastWriteWins ==
  \A c1, c2 \in Callers :
    BothRefreshed(c1, c2) =>
      /\ LastWriteWins(c1, c2)
      /\ now = lastAccepted.at =>
           (IsTokenValid(tokenData, now)
              <=> JsLess(Num(60), lastAccepted.resp.expires_in))

\* C5 witness: caller 1 sent its token request first and had its answer
\* processed last, so the two refreshes overlapped; its credential is the
\* one cached.
C5_Witness ==
  /\ BothRefreshed(1, 2)
  /\ call[1].req < call[2].req
  /\ lastAccepted.by = 1
  /\ tokenData.token = call[1].tok
  /\ IsTokenValid(tokenData, now)

\* C6: once clearToken() has run the credential is absent and
\* isTokenValid() is false; with a username and a password configured, the
\* getValidToken() called next sends a token request and waits for it.
C6_ClearForcesRefresh ==
  /\ [](call[1].op = "clearToken" =>
         tokenData = NULL /\ ~IsTokenValid(tokenData, now))
  /\ [][(call[1].op = "clearToken" /\ Called("getValidToken")
          /\ config.nodeRedUsername # "" /\ config.nodeRedPassword # "") =>
           /\ tokenReqs' = tokenReqs + 1
           /\ call'[1].pc = "await_token"
           /\ call'[1].req = tokenReqs']_vars

\* C6 witness: a getValidToken() waits for the token endpoint although the
\* credential accepted last, discarded by clearToken(), would still be valid.
C6_Witness ==
  /\ call[1].op = "getValidToken"
  /\ call[1].pc = "await_token"
  /\ tokenData = NULL
  /\ lastAccepted.by # 0
  /\ IsTokenValid(LastCredential, now)

\* C7: with a static token and no username configured, getValidToken()
\* returns the configured token at once, sends no token request and leaves
\* the credential as it is, at every time.
C7_StaticTokenVerbatim ==
  [][(Called("getValidToken") /\ config.nodeRedToken # ""
      /\ config.nodeRedUsername = "") =>
       /\ call'[1].pc = "done"
       /\ call'[1].result = "ok"
       /\ call'[1].tok = config.nodeRedToken
       /\ tokenReqs' = tokenReqs
       /\ tokenData' = tokenData]_vars

\* C7 witness: a getValidToken() returned the static token, three seconds
\* short of an hour after construction and after an earlier call.
C7_Witness ==
  /\ config.nodeRedToken = "static"
  /\ config.nodeRedUsername = ""
  /\ now = 3541000
  /\ calls > 1
  /\ call[1].op = "getValidToken"
  /\ call[1].pc = "done"
  /\ call[1].tok = "static"
  /\ tokenReqs = 0

\* C8 as stated: with neither a static token nor a username/password pair
\* configured, a finished getAuthHeaders() has returned the empty header
\* object and has not failed.
C8_AsStated ==
  \A c \in Callers :
    (/\ config.nodeRedToken = ""
     /\ ~(config.nodeRedUsername # "" /\ config.nodeRedPassword # "")
     /\ call[c].op = "getAuthHeaders"
     /\ call[c].pc = "done") =>
      call[c].result = "ok" /\ call[c].hdr = NoHeaders

\* C9 as stated: the expiresAt of a cached credential is strictly greater
\* than its obtainedAt.
C9_AsStated ==
  tokenData # NULL => JsLess(Num(tokenData.obtainedAt), tokenData.expiresAt)

\* C10: a credential cached from a response accepted at time t with
\* expires_in = E seconds has obtainedAt = t and expiresAt = t + 1000 * E;
\* for E = 3600 isTokenValid() is true at t and at t + 3539 s, and false at
\* t + 3541 s.
C10_ExpiryArithmetic ==
  (tokenData # NULL /\ ~tokenData.expiresIn.nan) =>
    LET t == lastAccepted.at
        E == lastAccepted.resp.expires_in.v
    IN /\ tokenData.expiresIn = lastAccepted.resp.expires_in
       /\ tokenData.obtainedAt = t
       /\ tokenData.expiresAt = Num(t + 1000 * E)
       /\ E = 3600 =>
            /\ now \in {t, t + 3539000} => IsTokenValid(tokenData, now)
            /\ now = t + 3541000 => ~IsTokenValid(tokenData, now)

\* C10 witness: 3539 s after a refresh with expires_in = 3600 the
\* credential is valid.
C10_Witness ==
  /\ tokenData # NULL
  /\ tokenData.expiresIn = Num(3600)
  /\ now = tokenData.obtainedAt + 3539000
  /\ IsTokenValid(tokenData, now)

\* 3541 s after a refresh with expires_in = 3600 the credential is not
\* valid.
C10_WitnessExpired ==
  /\ tokenData # NULL
  /\ tokenData.expiresIn = Num(3600)
  /\ now = tokenData.obtainedAt + 3541000
  /\ ~IsTokenValid(tokenData, now)

\* What refreshToken() tells apart in a failure of its request: every HTTP
\* status, and every kind of failure without a status.
Cause(resp) ==
  IF resp.kind = "status" THEN <<"status", resp.status>> ELSE <<resp.kind, 0>>

\* The responses refreshToken() does not accept, and for each message it
\* can throw for one of them, the causes that produce that message.
FailedResponses == {r \in AllTokenResponses : ~Accepted(r)}
CausesOf ==
  [m \in {RefreshError(r) : r \in FailedResponses} |->
     {Cause(r) : r \in {q \in FailedResponses : RefreshError(q) = m}}]

\* C11: refreshToken() without a username or a password rejects at once
\* with its own message and sends no request; a failed token request ends
\* with the message of a response the endpoint can give, and that message
\* tells the cause: no response of another cause (401, 404, any other
\* status taken by itself, connection refused, other failures) produces
\* it, and it is never the message of the missing credentials.
C11_DistinctErrors ==
  [][/\ (Called("refreshToken") /\ MissingCredentials(config)) =>
          /\ tokenReqs' = tokenReqs
          /\ call'[1].pc = "done"
          /\ call'[1].log = <<>>
          /\ call'[1].error = "Username and password are required"
     /\ (call[1].pc = "await_token" /\ call'[1].pc = "done"
           /\ call'[1].error # "") =>
          /\ call'[1].error # "Username and password are required"
          /\ call'[1].error \in DOMAIN CausesOf
          /\ Cardinality(CausesOf[call'[1].error]) = 1]_vars

\* C11 witness: a refreshToken() call ended with the message of an HTTP
\* status other than 401 and 404, and the message carries that status.
C11_Witness ==
  /\ call[1].op = "refreshToken"
  /\ call[1].pc = "done"
  /\ call[1].log = <<"tokreq", "tok_fail">>
  /\ call[1].error = "Authentication failed with status 503"

\* Two positions whose rectangles (120 x 30 plus a buffer of 20) overlap.
Overlap(p, q) == Abs(p.x - q.x) < 140 /\ Abs(p.y - q.y) < 50

\* The positions of the nodes of the flow that have numeric coordinates.
PreExisting ==
  {Pos(flow[i].x.v, flow[i].y.v) :
     i \in {j \in 1..Len(flow) : IsNumber(flow[j].x) /\ IsNumber(flow[j].y)}}

\* The position a node has.
At(n) == Pos(n.x.v, n.y.v)

\* The last run of applyAutoLayout() has returned the batch.
Returned == layout.pc = "done" /\ layout.run.status = "returned"

\* C12 as stated: when applyAutoLayout() has returned, no node of the batch
\* overlaps a node of the flow or another node of the batch.
C12_AsStated ==
  Returned =>
    \A i \in 1..Len(layout.run.nodes) :
      /\ \A e \in PreExisting : ~Overlap(At(layout.run.nodes[i]), e)
      /\ \A j \in 1..Len(layout.run.nodes) :
           j # i => ~Overlap(At(layout.run.nodes[i]), At(layout.run.nodes[j]))

\* C13 as stated: a call of applyAutoLayout() ends by returning, with any
\* algorithm, and returns a position for every node of the batch it was
\* given.
C13_AsStated ==
  layout.pc \in {"done", "hung"} =>
    /\ layout.run.status = "returned"
    /\ Len(layout.run.nodes) = Len(layout.run.given)
    /\ \A i \in 1..Len(layout.run.given) :
         /\ layout.run.nodes[i].id = layout.run.given[i].id
         /\ IsNumber(layout.run.nodes[i].x)
         /\ IsNumber(layout.run.nodes[i].y)

\* A position that overlaps none of the occupied positions of the call.
ProbeFree(p) ==
  \A c \in probe.existingCoords : ~Overlap(p, Pos(c[1], c[2]))

\* The preferred position of the call, and the same moved into the safe
\* zone.
ProbePreferredPos == Pos(probe.preferredX, probe.preferredY)
ProbeClamped ==
  Pos(IF probe.preferredX < probe.safeZone.startX
      THEN probe.safeZone.startX ELSE probe.preferredX,
      IF probe.preferredY < probe.safeZone.startY
      THEN probe.safeZone.startY ELSE probe.preferredY)

\* The free positions at grid offsets of at most the given radius around
\* the preferred position, in steps of 20 px, with positive coordinates
\* and not above the safe zone.
ProbeFreeWithin(radius) ==
  {p \in {Pos(probe.preferredX + 20 * dx, probe.preferredY + 20 * dy) :
            dx \in -radius..radius, dy \in -radius..radius} :
     /\ p # ProbePreferredPos
     /\ p.x >= 0 /\ p.y >= 0
     /\ p.y >= probe.safeZone.startY
     /\ ProbeFree(p)}

\* C14: a findAvailablePosition() call with a safe zone ends and returns
\* the safe-zone-clamped preferred position when that is free; else the
\* preferred position when that is free; else a free position at a grid
\* offset of the smallest radius from 1 to 20 that has one; else the
\* anchor (startX, startY) of the safe zone.
C14_SearchOrder ==
  probe.pc = "done" =>
    /\ probe.position # NULL
    /\ IF ProbeFree(ProbeClamped) THEN probe.position = ProbeClamped
       ELSE IF ProbeFree(ProbePreferredPos)
            THEN probe.position = ProbePreferredPos
            ELSE IF ProbeFreeWithin(20) # {}
                 THEN \E radius \in 1..20 :
                        /\ probe.position \in ProbeFreeWithin(radius)
                        /\ ProbeFreeWithin(radius - 1) = {}
                 ELSE probe.position = Pos(probe.safeZone.startX,
                                           probe.safeZone.startY)

\* C14 witness: a call found the clamped and the preferred position
\* occupied and no free position within radius 20, and returned the anchor
\* of the safe zone.
C14_Witness ==
  /\ probe.pc = "done"
  /\ ~ProbeFree(ProbeClamped)
  /\ ~ProbeFree(ProbePreferredPos)
  /\ ProbeFreeWithin(20) = {}
  /\ probe.position = Pos(probe.safeZone.startX, probe.safeZone.startY)

\* C14 witness of the search: a call returned a position two or more grid
\* steps away from an occupied preferred position.
C14_WitnessSearch ==
  /\ probe.pc = "done"
  /\ ~ProbeFree(ProbeClamped)
  /\ ~ProbeFree(ProbePreferredPos)
  /\ probe.position \in ProbeFreeWithin(20)
  /\ ProbeFreeWithin(2) = {}

\* C15 as stated: when applyAutoLayout() has returned, every node of the
\* batch lies at least 150 below the lowest node of the flow, and the safe
\* zone of the run is anchored at (max(100, smallest existing x), largest
\* existing y + 150), at (100, 250) when no node of the flow has numeric
\* coordinates.
C15_AsStated ==
  Returned =>
    /\ \A i \in 1..Len(layout.run.nodes) :
         \A e \in PreExisting : layout.run.nodes[i].y.v >= e.y + 150
    /\ IF PreExisting = {}
       THEN /\ layout.run.safeZone.startX = 100
            /\ layout.run.safeZone.startY = 250
       ELSE /\ layout.run.safeZone.startX
                 = Max({100} \cup {Min({e.x : e \in PreExisting})})
            /\ layout.run.safeZone.startY
                 = Max({e.y : e \in PreExisting}) + 150

\* The nodes of a batch a wire of node id leads to, and all nodes that wire
\* paths from the nodes of a set lead to.
WiredTo(nodes, id) ==
  {t \in Range(nodes[IndexOf(nodes, id)].wires) : HasId(nodes, t)}
RECURSIVE ReachedFrom(_, _)
ReachedFrom(nodes, ids) ==
  LET next == ids \cup UNION {WiredTo(nodes, id) : id \in ids}
  IN IF next = ids THEN ids ELSE ReachedFrom(nodes, next)
BatchIdsOf(nodes) == {nodes[i].id : i \in 1..Len(nodes)}
Acyclic(nodes) ==
  \A id \in BatchIdsOf(nodes) :
    id \notin ReachedFrom(nodes, WiredTo(nodes, id))

\* The roots of a batch, and the length of the longest wire path from a
\* root to a node of an acyclic batch.
Roots(nodes) ==
  {id \in BatchIdsOf(nodes) :
     \A other \in BatchIdsOf(nodes) : id \notin WiredTo(nodes, other)}
RECURSIVE LongestPath(_, _)
LongestPath(nodes, id) ==
  IF id \in Roots(nodes) THEN 0
  ELSE 1 + Max({LongestPath(nodes, u) :
                  u \in {o \in BatchIdsOf(nodes) : id \in WiredTo(nodes, o)}})

\* The x a run has given the node with an id.
RunX(id) == layout.run.nodes[IndexOf(layout.run.nodes, id)].x.v

\* C16: dagre_lr on an acyclic batch returns; the level of every node is
\* the length of the longest wire path from a root to it, the node is
\* placed at x = safeZone.startX + 250 * level, and every wire leads to a
\* node further right.
C16_LongestPathLayers ==
  (/\ layout.pc \in {"done", "hung"}
   /\ layout.run.algorithm = "dagre_lr"
   /\ layout.run.given # <<>>
   /\ Acyclic(layout.run.given)) =>
    /\ layout.run.status = "returned"
    /\ \A id \in BatchIdsOf(layout.run.given) :
         /\ DagreLevels(layout.run.given).levelMap.level[id]
              = LongestPath(layout.run.given, id)
         /\ RunX(id) = layout.run.safeZone.startX
                         + 250 * LongestPath(layout.run.given, id)
         /\ \A v \in WiredTo(layout.run.given, id) : RunX(v) > RunX(id)

\* C16 witness: dagre_lr has laid out A -> B -> C with a second wire
\* A -> C; C is two levels right of A.
C16_Witness ==
  /\ Returned
  /\ layout.run.algorithm = "dagre_lr"
  /\ Len(layout.run.given) = 3
  /\ layout.run.given[1].wires = <<"B", "C">>
  /\ layout.run.given[2].wires = <<"C">>
  /\ layout.run.given[3].wires = <<>>
  /\ RunX("C") = RunX("A") + 500
  /\ RunX("B") = RunX("A") + 250

\* The nodes of a batch no wire path from a root leads to.
Unreachable(nodes) ==
  BatchIdsOf(nodes) \ ReachedFrom(nodes, Roots(nodes))

\* C17 as stated: when dagre_lr has returned a batch that has a root, all
\* its nodes that no root reaches stand in one column, the column after
\* the rightmost column of the reachable nodes.
C17_AsStated ==
  (/\ Returned
   /\ layout.run.algorithm = "dagre_lr"
   /\ Roots(layout.run.given) # {}
   /\ Unreachable(layout.run.given) # {}) =>
    \A id \in Unreachable(layout.run.given) :
      RunX(id) = 250 + Max({RunX(r) : r \in ReachedFrom(layout.run.given,
                                                        Roots(layout.run.given))})

\* C18 as stated: semantic_article on A -> B -> C and a node D apart
\* returns; the chains are [A, B, C] and [D]; A, B and C share one y with
\* x rising from A to C, and D lies below them.
C18_AsStated ==
  (/\ layout.pc = "done"
   /\ layout.run.algorithm = "semantic_article"
   /\ layout.run.given = ChainScenario) =>
    /\ layout.run.status = "returned"
    /\ IdentifyFunctionalChains(layout.run.given) = <<<<"A", "B", "C">>, <<"D">>>>
    /\ RunX("A") < RunX("B") /\ RunX("B") < RunX("C")
    /\ \A i \in 2..3 : layout.run.nodes[i].y = layout.run.nodes[1].y
    /\ layout.run.nodes[4].y.v > layout.run.nodes[1].y.v

\* The same batch: same length and, node by node, the same id, type and
\* wires.
SameBatch(a, b) ==
  /\ Len(a) = Len(b)
  /\ \A i \in 1..Len(a) :
       a[i].id = b[i].id /\ a[i].type = b[i].type /\ a[i].wires = b[i].wires

\* C19: two runs of the grid strategy that were given the same batch and
\* had the same existing coordinates and the same safe zone have returned
\* the same coordinates for every node.
C19_GridDeterministic ==
  (/\ Returned
   /\ layout.run.algorithm = "grid"
   /\ layout.prev.algorithm = "grid"
   /\ layout.prev.status = "returned"
   /\ SameBatch(layout.prev.given, layout.run.given)
   /\ layout.prev.existingCoords = layout.run.existingCoords
   /\ layout.prev.safeZone = layout.run.safeZone) =>
    \A i \in 1..Len(layout.run.nodes) :
      At(layout.run.nodes[i]) = At(layout.prev.nodes[i])

\* C19 witness: the grid strategy has laid out three nodes twice below a
\* flow that has a node with coordinates, and the second run was given the
\* nodes as the first run had left them.
C19_Witness ==
  /\ Returned
  /\ layout.run.algorithm = "grid"
  /\ layout.prev.algorithm = "grid"
  /\ layout.prev.status = "returned"
  /\ layout.run.fetched /\ layout.prev.fetched
  /\ layout.run.existingCoords # {}
  /\ Len(layout.run.nodes) = 3
  /\ layout.run.given = layout.prev.nodes
  /\ layout.run.given # layout.prev.given
  /\ layout.run.nodes = layout.prev.nodes

\* The nodes of the batch whose id no node of the flow has, in the order of
\* the batch.
Fresh(batch) ==
  LET NotInFlow(n) == \A k \in 1..Len(flow) : flow[k].id # n.id
  IN SelectSeq(batch, NotInFlow)

\* C20: mergeFlows in mode add-only returns the nodes of the flow, each
\* unchanged and in its place, followed by the new nodes whose id the flow
\* does not have, in the order they came in; the new nodes whose id the
\* flow has leave no trace: the result is that of the call without them.
C20_AddOnly ==
  (merged.pc = "done" /\ merged.mode = "add-only") =>
    /\ Len(merged.nodes) = Len(flow) + Len(Fresh(merged.given))
    /\ SubSeq(merged.nodes, 1, Len(flow)) = flow
    /\ \A i \in 1..Len(Fresh(merged.given)) :
         SameBatch(<<merged.nodes[Len(flow) + i]>>, <<Fresh(merged.given)[i]>>)
    /\ merged.nodes = MergeFlows(flow, FlowId, Fresh(merged.given), "add-only",
                                merged.preserveCoordinates).nodes

\* C20 witness: add-only was given a node whose id the flow has, with
\* other coordinates than the flow's node, and then a node with a new id;
\* the result is the flow and the second node.
C20_Witness ==
  /\ merged.pc = "done" /\ merged.mode = "add-only"
  /\ Len(flow) >= 2
  /\ Len(merged.given) = 2
  /\ \E k \in 1..Len(flow) :
       /\ flow[k].id = merged.given[1].id
       /\ IsNumber(flow[k].x) /\ IsNumber(merged.given[1].x)
       /\ flow[k].x # merged.given[1].x
  /\ Fresh(merged.given) = <<merged.given[2]>>
  /\ Len(merged.nodes) = Len(flow) + 1
  /\ merged.nodes[Len(flow) + 1].id = merged.given[2].id

\* What the rules of a sound node-set forbid, read off the node-set alone:
\* a node without id or without type, an id two nodes have, a coordinate
\* that is no number, wires that is there and is not an array of arrays,
\* a wire target that no node of the node-set has as id.
BreaksARule(nodes) ==
  \/ \E i \in 1..Len(nodes) : nodes[i].id = "" \/ nodes[i].type = ""
  \/ \E i, j \in 1..Len(nodes) : i # j /\ nodes[i].id = nodes[j].id
  \/ \E i \in 1..Len(nodes) : ~IsNumber(nodes[i].x) \/ ~IsNumber(nodes[i].y)
  \/ \E i \in 1..Len(nodes) :
       \/ nodes[i].wires.kind = "other"
       \/ /\ nodes[i].wires.kind = "array"
          /\ \E k \in 1..Len(nodes[i].wires.groups) :
               ~nodes[i].wires.groups[k].array
  \/ \E i \in 1..Len(nodes) :
       /\ nodes[i].wires.kind = "array"
       /\ \E k \in 1..Len(nodes[i].wires.groups) :
            \E t \in 1..Len(nodes[i].wires.groups[k].ids) :
              \A j \in 1..Len(nodes) :
                nodes[j].id # nodes[i].wires.groups[k].ids[t]

\* validateFlowStructure() was given an array of nodes, none of them null.
ValidatedObjects ==
  /\ validation.pc = "done"
  /\ validation.flowData.array
  /\ \A i \in 1..Len(validation.flowData.nodes) :
       validation.flowData.nodes[i] # NULL

\* C23 as stated: for an array of node objects, validateFlowStructure
\* answers valid = false with at least one error whenever the node-set
\* breaks a rule, and valid = true only when it breaks none.
C23_AsStated ==
  ValidatedObjects =>
    /\ validation.result.status = "returned"
    /\ BreaksARule(validation.flowData.nodes) =>
         (~validation.result.valid /\ validation.result.errors # <<>>)
    /\ validation.result.valid => ~BreaksARule(validation.flowData.nodes)

\* C24 as stated: validateFlowStructure returns for every node-set, with
\* valid true exactly when errors is empty, and with valid = false and a
\* non-empty error list when a wire target is the id of no node.
C24_AsStated ==
  validation.pc = "done" =>
    /\ validation.result.status = "returned"
    /\ validation.result.valid <=> validation.result.errors = <<>>
    /\ (\E i \in 1..Len(validation.flowData.nodes) :
          WireErrors(validation.flowData.nodes, i) # <<>>) =>
         (~validation.result.valid /\ validation.result.errors # <<>>)

\* Where an event stands first in a log; 0 when it is not in it.
FirstAt(log, event) ==
  IF \E i \in 1..Len(log) : log[i] = event
  THEN Min({i \in 1..Len(log) : log[i] = event})
  ELSE 0
Before(log, a, b) == FirstAt(log, a) > 0 /\ FirstAt(log, a) < FirstAt(log, b)

\* validateFlowStructure() returned and found something wrong.
Refused(checked) ==
  checked # NULL /\ checked.status = "returned" /\ ~checked.valid

\* C25 as stated: a tool that has merged had read the flow and had the new
\* nodes validated before; a tool that has sent the PUT had the merged
\* flow validated after the merge, and both validations passed; a tool
\* that was refused by a validation sends no PUT and returns the errors.
C25_AsStated ==
  /\ FirstAt(tool.log, "merge") > 0 =>
       /\ Before(tool.log, "GET /flow", "merge")
       /\ Before(tool.log, "validate new", "merge")
  /\ FirstAt(tool.log, "PUT /flow") > 0 =>
       /\ Before(tool.log, "merge", "validate merged")
       /\ Before(tool.log, "validate merged", "PUT /flow")
       /\ tool.checkedIncoming # NULL /\ tool.checkedIncoming.valid
       /\ tool.checkedMerged # NULL /\ tool.checkedMerged.valid
  /\ (Refused(tool.checkedIncoming) \/ Refused(tool.checkedMerged)) =>
       /\ FirstAt(tool.log, "PUT /flow") = 0
       /\ tool.pc = "done" /\ tool.result = "validation failed"

\* C25, side: update-flow alone does as the claim says.
C25_UpdateFlowOnly == tool.name = "update-flow" => C25_AsStated

\* C25, side: add-nodes-to-flow has sent a flow that validateFlowStructure()
\* refuses.
C25_SentUnsound ==
  /\ tool.name = "add-nodes-to-flow"
  /\ tool.pc = "done" /\ tool.result = "updated"
  /\ ~ValidateFlowStructure(FlowData(Raw(flow))).valid

\* The node of the flow the tool read that has this id, and whether there
\* is one.
Known(id) == \E k \in 1..Len(tool.existingFlow) : tool.existingFlow[k].id = id
Old(id) ==
  tool.existingFlow[CHOOSE k \in 1..Len(tool.existingFlow) :
                      tool.existingFlow[k].id = id]
\* The new nodes whose id the flow does not have, in their order.
Unseen(batch) ==
  LET NotKnown(n) == ~Known(n.id)
  IN SelectSeq(batch, NotKnown)
\* The new node with this id, when there is one.
Named(batch, id) == \E i \in 1..Len(batch) : batch[i].id = id
New(batch, id) == batch[CHOOSE i \in 1..Len(batch) : batch[i].id = id]

\* C21: update-flow in mode merge. At the index of every node of the flow
\* whose id a new node has stands that node overwritten by the new one:
\* type and wires of the new node, its name when it has one, z the flow,
\* and its coordinates, or those of the old node when preserveCoordinates
\* is on. Every other node of the flow stands unchanged at its index, and
\* the new nodes with unseen ids follow in their order.
C21_MergeMode ==
  (merged.pc = "done" /\ merged.mode = "merge") =>
    /\ Len(merged.nodes) = Len(tool.existingFlow) + Len(Unseen(merged.given))
    /\ \A k \in 1..Len(tool.existingFlow) :
         LET old == tool.existingFlow[k]
             new == New(merged.given, old.id)
         IN IF Named(merged.given, old.id)
            THEN /\ merged.nodes[k].id = old.id
                 /\ merged.nodes[k].type = new.type
                 /\ merged.nodes[k].wires = new.wires
                 /\ merged.nodes[k].z = FlowId
                 /\ merged.nodes[k].name =
                      (IF new.name = "" THEN old.name ELSE new.name)
                 /\ merged.nodes[k].x =
                      (IF merged.preserveCoordinates THEN old.x ELSE new.x)
                 /\ merged.nodes[k].y =
                      (IF merged.preserveCoordinates THEN old.y ELSE new.y)
            ELSE merged.nodes[k] = old
    /\ \A i \in 1..Len(Unseen(merged.given)) :
         SameBatch(<<merged.nodes[Len(tool.existingFlow) + i]>>,
                   <<Unseen(merged.given)[i]>>)

\* C21 witness: merge with preserveCoordinates has put the renamed e1,
\* wired to n1 now and where the old e1 was, in the place of e1, has left
\* e2 as it was and has appended n1.
C21_Witness ==
  /\ merged.pc = "done" /\ merged.mode = "merge"
  /\ merged.preserveCoordinates
  /\ Len(tool.existingFlow) = 2 /\ Len(merged.nodes) = 3
  /\ merged.nodes[1].id = "e1" /\ merged.nodes[1].name = "new"
  /\ merged.nodes[1].wires = <<"n1">>
  /\ merged.nodes[1].x = Num(40)
  /\ New(merged.given, "e1").x = Num(500)
  /\ merged.nodes[2] = tool.existingFlow[2]
  /\ merged.nodes[3].id = "n1"

\* mergeFlows in mode replace has returned the new nodes, each with its
\* own fields and, as coordinates, those of the old node of its id when
\* preserveCoordinates is on and the flow had a node of that id (with
\* numbers as x and y, when onlyNumbers), and its own otherwise.
ReplacedWith(onlyNumbers) ==
  /\ Len(merged.nodes) = Len(merged.given)
  /\ \A i \in 1..Len(merged.given) :
       LET new == merged.given[i]
           Takes(n) ==
             /\ merged.preserveCoordinates /\ Known(n.id)
             /\ onlyNumbers =>
                  (IsNumber(Old(n.id).x) /\ IsNumber(Old(n.id).y))
       IN /\ SameBatch(<<merged.nodes[i]>>, <<new>>)
          /\ merged.nodes[i].name = new.name
          /\ merged.nodes[i].x = (IF Takes(new) THEN Old(new.id).x ELSE new.x)
          /\ merged.nodes[i].y = (IF Takes(new) THEN Old(new.id).y ELSE new.y)

\* C22 as stated: with preserveCoordinates on, every new node whose id
\* existed before has the x and y of the old node.
C22_AsStated ==
  (merged.pc = "done" /\ merged.mode = "replace") =>
    ReplacedWith(FALSE)

\* C22 amended: update-flow in mode replace returns exactly the new nodes;
\* with preserveCoordinates on, a new node whose id a node of the flow had
\* with numbers as x and y takes that x and y; every other node, and with
\* preserveCoordinates off every node, keeps the coordinates it came with.
C22_ReplaceMode ==
  (merged.pc = "done" /\ merged.mode = "replace") =>
    ReplacedWith(TRUE)

\* C22 witness: replace with preserveCoordinates was given e1 at (500,600)
\* and the new n1; the flow had e1 at (40,100) and e2. The result is e1 at
\* (40,100) and n1 where it came, and e2 is gone.
C22_Witness ==
  /\ merged.pc = "done" /\ merged.mode = "replace"
  /\ merged.preserveCoordinates
  /\ Len(tool.existingFlow) = 2
  /\ Len(merged.nodes) = 2
  /\ merged.given[1].id = "e1" /\ merged.given[1].x = Num(500)
  /\ merged.nodes[1].x = Num(40) /\ merged.nodes[1].y = Num(100)
  /\ merged.nodes[2].id = "n1"
  /\ merged.nodes[2].x = merged.given[2].x
  /\ \A i \in 1..2 : merged.nodes[i].id # "e2"

\* validateFlowStructure() accepts these nodes of a flow.
Sound(nodes) == ValidateFlowStructure(FlowData(Raw(nodes))).valid

\* C30: when validateFlowStructure() accepts the flow a tool has read and
\* has accepted the new nodes, it accepts what mergeFlows() returns, in
\* each mode and with preserveCoordinates on or off: ids are unique,
\* coordinates are numbers, every wire leads to a node of the result.
C30_MergeKeepsSound ==
  (/\ merged.pc = "done"
   /\ tool.checkedIncoming # NULL /\ tool.checkedIncoming.valid
   /\ Sound(tool.existingFlow)) =>
    /\ Sound(merged.nodes)
    /\ \A i, j \in 1..Len(merged.nodes) :
         merged.nodes[i].id = merged.nodes[j].id => i = j
    /\ \A i \in 1..Len(merged.nodes) :
         /\ IsNumber(merged.nodes[i].x) /\ IsNumber(merged.nodes[i].y)
         /\ \A t \in 1..Len(merged.nodes[i].wires) :
              \E j \in 1..Len(merged.nodes) :
                merged.nodes[j].id = merged.nodes[i].wires[t]

\* C30 witness: update-flow has merged, in a mode other than replace, the
\* renamed e1 wired to n1 and the node n1 into the sound flow of e1 wired
\* to e2, and the result is sound and holds a wire of the new e1.
C30_Witness ==
  /\ merged.pc = "done" /\ tool.name = "update-flow"
  /\ merged.mode = "merge"
  /\ tool.checkedIncoming # NULL /\ tool.checkedIncoming.valid
  /\ Len(tool.existingFlow) = 2 /\ Sound(tool.existingFlow)
  /\ tool.existingFlow[1].wires = <<"e2">>
  /\ Len(merged.given) = 2
  /\ Named(merged.given, "e1") /\ Named(merged.given, "n1")
  /\ Sound(merged.nodes)
  /\ Len(merged.nodes) = 3
  /\ merged.nodes[1].wires = <<"n1">>

\* C26 as stated: dagre_lr on a batch with unique ids and wires that lead
\* to nodes of the batch comes to an end, wire cycles and self-loops
\* included, and has then given every node of the batch a position.
C26_AsStated ==
  layout.algorithm = "dagre_lr" =>
    /\ layout.pc # "hung"
    /\ layout.pc = "done" =>
         /\ layout.run.status = "returned"
         /\ Len(layout.run.nodes) = Len(layout.run.given)
         /\ \A i \in 1..Len(layout.run.nodes) :
              IsNumber(layout.run.nodes[i].x) /\ IsNumber(layout.run.nodes[i].y)

\* A callNodeRed of a server configured with username and password.
PasswordCall(c) ==
  /\ call[c].op = "callNodeRed"
  /\ config.nodeRedUsername # "" /\ config.nodeRedPassword # ""

\* The auth manager gave the call a token right before position i of its
\* log: from the cache or from the token endpoint.
TokenRightBefore(s, i) == i > 1 /\ s[i - 1] \in {"cached", "tok_ok"}

\* C27: a callNodeRed with username/password auth sends every upstream
\* request right after the auth manager has given it a token, and with
\* that token in the header; when the manager fails before the first
\* request, the call is over with an authentication error after that one
\* attempt and has sent nothing upstream.
C27_HeaderBeforeRequest ==
  \A c \in Callers :
    PasswordCall(c) =>
      /\ \A i \in Sends(call[c].log) : TokenRightBefore(call[c].log, i)
      /\ call[c].pc = "await_api" =>
           (call[c].hdr.token # "" /\ call[c].hdr.token = call[c].tok)
      /\ (Len(call[c].log) >= 2 /\ call[c].log[2] = "tok_fail") =>
           /\ call[c].log = <<"tokreq", "tok_fail">>
           /\ call[c].pc = "done"
           /\ call[c].result = "Authentication failed"

\* C27 witness: the token endpoint has refused the credentials and the
\* callNodeRed is over, nothing sent upstream.
C27_Witness ==
  /\ PasswordCall(1)
  /\ call[1].log = <<"tokreq", "tok_fail">>
  /\ call[1].error = "Invalid username or password"
  /\ call[1].result = "Authentication failed"
  /\ call[1].pc = "done"

\* C27 witness, the other case: a request was sent with the token of the
\* refresh before it.
C27_WitnessSent ==
  /\ PasswordCall(1)
  /\ call[1].log = <<"tokreq", "tok_ok", "send">>
  /\ call[1].hdr.token = IssuedToken(call[1].req)

\* C28 as stated: when a caller's 401 makes callNodeRed clear the cached
\* credential, the credential cleared is the one whose token the rejected
\* request carried, never one stored since by another caller's refresh.
C28_AsStated ==
  [][\A c \in Callers :
       (/\ call[c].pc = "await_api"
        /\ call'[c] # call[c]
        /\ tokenData # NULL
        /\ tokenData' = NULL) => tokenData.token = call[c].hdr.token]_vars

\* The token type the token endpoint gave with the response accepted last.
LastAcceptedType ==
  IF lastAccepted.resp.token_type = "" THEN "Bearer"
  ELSE lastAccepted.resp.token_type

====
